---- MODULE Spec2Model ----
(***************************************************************************)
(* Model of the resource-management core of package gather:               *)
(*   - the instance pool (Pool, PoolConfig, getPoolIndex, the four pool   *)
(*     request methods and the constructors),                             *)
(*   - the transport cache of getHttpTransport,                           *)
(*   - the per-instance exchange (GatherStruct.GetUtil / PostUtil) as far  *)
(*     as the pool observes it: instance lock, outcome, unlock.           *)
(*                                                                         *)
(* Time is a millisecond counter `now`; it advances in steps of the       *)
(* pool's RetryIntervalMs.  A float ratio is kept in thousandths.         *)
(***************************************************************************)
EXTENDS Integers, Sequences, FiniteSets, TLC

\* ------------------------------------------------------------ bounds ----
NumCallers == 2       \* concurrent goroutines calling the pool / the cache
MaxPoolNum == 2       \* largest pool size built for the concurrent runs
MaxTicks == 2         \* how many retry intervals the clock may advance
MaxNumInput == 4      \* largest small "num" handed to the constructors
MaxPoolSizeInput == 3 \* largest small PoolConfig.MaxPoolSize handed in
MaxTotalCentis == 600 \* total timeouts of 0.01 s .. 6 s are derived from
MaxConfigChanges == 2 \* how many times the active configuration is replaced
MaxTransports == 3    \* getHttpTransport is called while fewer transports exist
NumInstances == 2     \* client instances the concurrent callers share
MaxBodyLen == 20      \* longest response body handed to Ungzip

Callers == 1..NumCallers

\* The nil pointer, and "no holder" of a mutex.
Nil == 0

\* ------------------------------------------------- package-level data ----
\* var MaxIdleConns = 100
MaxIdleConns == 100
\* var MaxIdleConnsPerHostNoProxy = 0.2 (thousandths)
MaxIdleConnsPerHostNoProxy == 200
\* var MaxIdleConnsPerHostWithProxy = 0.1 (thousandths)
MaxIdleConnsPerHostWithProxy == 100

\* var defaultPoolConfig
defaultPoolConfig ==
  [ MaxIdleConns             |-> 0,
    MaxIdleConnsPerHostRatio |-> 200,
    TimeoutSecond            |-> 30,
    RetryIntervalMs          |-> 100,
    MaxPoolSize              |-> 100,
    IsUseSemaphore           |-> TRUE ]

\* var errNoFreeClinetFind
errNoFreeClinetFind == "time out,no free client find"

\* Proxy identities handed to getHttpTransport; "" is the direct connection.
ProxyKeys == {"", "proxyA", "proxyB"}

VARIABLES
  \* ---- transport cache (package level)
  transports,         \* heap of *http.Transport objects: id -> settings
  transportNoProxy,   \* id of the no-proxy singleton, or Nil
  transportProxyMap,  \* proxy address -> id
  noProxyLocker,      \* holder of the mutex, or Nil
  proxyMapLocker,     \* holder of the mutex, or Nil
  tpc,                \* position of each getHttpTransport caller
  tkey,               \* its proxyURL argument
  tret,               \* the transport it returned
  tconc,              \* another call for the same key ran during its call
  \* ---- configuration registry (package level)
  globalConfig,       \* the active *GatherConfig
  configLocker,       \* sync.RWMutex: its writer, or Nil
  transportLocker,    \* holder of the mutex, or Nil
  cfgVersion,         \* how many configurations have been installed
  returnedVersion,    \* the newest version whose SetGatherConfig has returned
  cfgCall,            \* the configuration call under examination
  gpc,                \* position of each registry caller
  gfn,                \* the function it called
  garg,               \* its argument: a configuration, or a proxy address
  gsnap,              \* getHttpTransport's local cfg
  gret,               \* the transport getHttpTransport returned
  gstale,             \* that transport was older than returnedVersion
  hasPass,            \* the authenticated-proxy constructor call under examination
  \* ---- Pool
  unUsed,             \* sync.Map: index -> bool (a deleted key is absent)
  pool,               \* []*GatherStruct
  sem,                \* chan struct{}: capacity and number of permits in it
  config,             \* PoolConfig stored in the pool
  locker,             \* GatherStruct.locker of each instance: holder or Nil
  \* ---- constructor call under examination
  args,               \* the arguments of the constructor call
  \* ---- one pool call per caller
  pc,                 \* position in Pool.Get / GetUtil / Post / PostUtil
  deadline,           \* ctx deadline of the call (ms)
  hasPermit,          \* the deferred permit return is registered
  num,                \* loop counter of getPoolIndex
  poolIndex,          \* poolIndex of getPoolIndex / of the method
  visited,            \* keys the running Range has already visited
  wake,               \* end of the running time.Sleep (ms)
  res,                \* (html, redirectURL, err) returned by the last call
  now,                \* the clock (ms)
  \* ---- history of the current call of each caller
  gavePermit,         \* it sent a permit back into sem
  touched,            \* it deleted or stored a key of unUsed
  exchanged,          \* it ran an exchange on an instance
  relSeen,            \* a holder released while it waited, before its deadline
  starved,            \* every instance has been leased since its call began
  \* ---- exchanges on client instances
  variant,            \* the build: which util file is compiled in
  gathers,            \* the *GatherStruct instances the callers share
  glocker,            \* GatherStruct.locker of each of them: holder or Nil
  xpc,                \* position of each caller in its instance method
  xcall,              \* the method it called, and its arguments
  xreq,               \* the *http.Request newHttpRequest built for it
  xresp,              \* the *http.Response Client.Do gave it
  xres,               \* (html, redirectURL, err) its call returned
  xhist,              \* per instance: an exchange with referer and cookie ended
  \* ---- life of a pool under configuration changes
  opLog,              \* the last operation, and the registry before it
  poolSnap,           \* the transports of the pool's instances when it was built
  later               \* an instance created after the pool

regvars == <<globalConfig, configLocker, transportLocker, cfgVersion,
             returnedVersion, cfgCall, gpc, gfn, garg, gsnap, gret, gstale,
             hasPass>>
tvars == <<transports, transportNoProxy, transportProxyMap, noProxyLocker,
           proxyMapLocker, tpc, tkey, tret, tconc, regvars>>
poolvars == <<unUsed, pool, sem, config, locker>>
callvars == <<pc, deadline, hasPermit, num, poolIndex, visited, wake,
              res, now>>
histvars == <<gavePermit, touched, exchanged, relSeen, starved>>
exvars == <<variant, gathers, glocker, xpc, xcall, xreq, xresp, xres, xhist>>
lifevars == <<opLog, poolSnap, later>>
addvars == <<exvars, lifevars>>
vars == <<tvars, poolvars, args, callvars, histvars, addvars>>

\* --------------------------------------------------------- helpers ----
Max(a, b) == IF a >= b THEN a ELSE b

\* int(float64(n) * ratio) with the ratio in thousandths; Go truncates
\* toward zero.
ScaleByRatio(n, ratio) ==
  LET prod == n * ratio
  IN  IF prod >= 0 THEN prod \div 1000 ELSE -((-prod) \div 1000)

\* ------------------------------------------------ transport cache ----
\* The package-level transport state as one value, for the sequential
\* callers (the constructors).
TransportState ==
  [ transports        |-> transports,
    transportNoProxy  |-> transportNoProxy,
    transportProxyMap |-> transportProxyMap ]

\* newBaseTransport(): a fresh transport carrying the package settings.
newBaseTransport ==
  [ Proxy               |-> "",
    MaxIdleConns        |-> MaxIdleConns,
    MaxIdleConnsPerHost |-> 0 ]

\* The cache look-up of getHttpTransport: "transportNoProxy == nil" for the
\* direct connection, "t, ok := transportProxyMap[proxyURL]" for a proxy.
\* Nil when nothing is cached.
CacheLookup(st, proxyURL) ==
  IF proxyURL = ""
  THEN st.transportNoProxy
  ELSE IF proxyURL \in DOMAIN st.transportProxyMap
       THEN st.transportProxyMap[proxyURL]
       ELSE Nil

\* The miss branch of getHttpTransport: a new transport is built, sized and
\* stored in the singleton slot or in the map.
CacheCreate(st, proxyURL) ==
  LET id == Len(st.transports) + 1
  IN  IF proxyURL = ""
      THEN LET perHost == ScaleByRatio(MaxIdleConns, MaxIdleConnsPerHostNoProxy)
               t == [newBaseTransport EXCEPT !.MaxIdleConnsPerHost = Max(perHost, 1)]
           IN  [ ret |-> id,
                 st  |-> [st EXCEPT !.transports = Append(@, t),
                                    !.transportNoProxy = id] ]
      ELSE LET perHost == ScaleByRatio(MaxIdleConns, MaxIdleConnsPerHostWithProxy)
               t == [newBaseTransport EXCEPT !.Proxy = proxyURL,
                                             !.MaxIdleConnsPerHost = Max(perHost, 1)]
           IN  [ ret |-> id,
                 st  |-> [st EXCEPT
                            !.transports = Append(@, t),
                            !.transportProxyMap =
                               [k \in DOMAIN @ \cup {proxyURL} |->
                                  IF k = proxyURL THEN id ELSE @[k]]] ]

\* getHttpTransport run by a caller that nobody interleaves with (a
\* constructor): the cached transport if there is one, else a new one.
getHttpTransport(st, proxyURL) ==
  IF CacheLookup(st, proxyURL) # Nil
  THEN [ret |-> CacheLookup(st, proxyURL), st |-> st]
  ELSE CacheCreate(st, proxyURL)

\* ------------------------------------------------ pool construction ----
\* A nil channel: never ready to receive from, never ready to send to.
NilChan == [cap |-> 0, len |-> 0]

\* The zero value of PoolConfig.
ZeroPoolConfig ==
  [ MaxIdleConns             |-> 0,
    MaxIdleConnsPerHostRatio |-> 0,
    TimeoutSecond            |-> 0,
    RetryIntervalMs          |-> 0,
    MaxPoolSize              |-> 0,
    IsUseSemaphore           |-> FALSE ]

\* getValidatedConfig with the upper limits of the ratio and of the retry
\* interval forgotten.
getValidatedConfig_NoUpperLimits(cfg) ==
  LET c1 == IF cfg.MaxIdleConnsPerHostRatio <= 0
            THEN [cfg EXCEPT !.MaxIdleConnsPerHostRatio =
                                defaultPoolConfig.MaxIdleConnsPerHostRatio]
            ELSE cfg
      c2 == IF c1.TimeoutSecond <= 0
            THEN [c1 EXCEPT !.TimeoutSecond = defaultPoolConfig.TimeoutSecond]
            ELSE c1
      c3 == IF c2.RetryIntervalMs < 10
            THEN [c2 EXCEPT !.RetryIntervalMs = defaultPoolConfig.RetryIntervalMs]
            ELSE c2
      c4 == IF c3.MaxPoolSize <= 0
            THEN [c3 EXCEPT !.MaxPoolSize = defaultPoolConfig.MaxPoolSize]
            ELSE c3
  IN  c4

\* getValidatedConfig: every out-of-range field is replaced by its default.
getValidatedConfig(cfg) ==
  LET c1 == IF cfg.MaxIdleConnsPerHostRatio <= 0 \/ cfg.MaxIdleConnsPerHostRatio > 1000
            THEN [cfg EXCEPT !.MaxIdleConnsPerHostRatio =
                                defaultPoolConfig.MaxIdleConnsPerHostRatio]
            ELSE cfg
      c2 == IF c1.TimeoutSecond <= 0
            THEN [c1 EXCEPT !.TimeoutSecond = defaultPoolConfig.TimeoutSecond]
            ELSE c1
      c3 == IF c2.RetryIntervalMs < 10 \/ c2.RetryIntervalMs > 1000
            THEN [c2 EXCEPT !.RetryIntervalMs = defaultPoolConfig.RetryIntervalMs]
            ELSE c2
      c4 == IF c3.MaxPoolSize <= 0
            THEN [c3 EXCEPT !.MaxPoolSize = defaultPoolConfig.MaxPoolSize]
            ELSE c3
  IN  c4

\* adjustPoolSize with the upper clamp forgotten.
adjustPoolSize_NoUpperClamp(n, maxPoolSize) ==
  IF n <= 0 THEN 1 ELSE n

\* adjustPoolSize: the pool size kept within 1..maxPoolSize.
adjustPoolSize(n, maxPoolSize) ==
  IF n <= 0 THEN 1
  ELSE IF n > maxPoolSize THEN maxPoolSize
  ELSE n

\* newGatherUtilWithCustomConfig: one instance; the transport it gets from
\* getHttpTransport has its idle-connection budget overwritten.
newGatherUtilWithCustomConfig(st, proxyURL, timeOut, maxIdleConns, cfg) ==
  LET g       == getHttpTransport(st, proxyURL)
      ratioed == ScaleByRatio(maxIdleConns, cfg.MaxIdleConnsPerHostRatio)
      perHost == IF ratioed <= 0 THEN 1 ELSE ratioed
      st2     == [g.st EXCEPT !.transports[g.ret] =
                     [@ EXCEPT !.MaxIdleConns = maxIdleConns,
                               !.MaxIdleConnsPerHost = perHost]]
  IN  [ ga |-> [ nil    |-> FALSE,
                 Client |-> [nil |-> FALSE, Transport |-> g.ret, Timeout |-> timeOut],
                 J      |-> "J" ],
        st |-> st2 ]

\* The loop "for i := 0; i < num; i++" of the constructors, from index i on:
\* append an instance and mark its index free.
RECURSIVE BuildInstances(_, _, _, _, _, _, _)
BuildInstances(gp, i, n, proxyURL, timeOut, finalMaxIdleConns, cfg) ==
  IF i >= n THEN gp
  ELSE LET r == newGatherUtilWithCustomConfig(gp.st, proxyURL, timeOut,
                                              finalMaxIdleConns, cfg)
           gp2 == [gp EXCEPT !.pool = Append(@, r.ga),
                             !.unUsed = [k \in DOMAIN @ \cup {i} |->
                                           IF k = i THEN TRUE ELSE @[k]],
                             !.st = r.st]
       IN  BuildInstances(gp2, i + 1, n, proxyURL, timeOut, finalMaxIdleConns, cfg)

\* The constructor from "num = adjustPoolSize(...)" on, cfg being final.
BuildPool(st, proxyURL, timeOut, n0, cfg) ==
  LET n == adjustPoolSize(n0, cfg.MaxPoolSize)
      finalMaxIdleConns == IF cfg.MaxIdleConns = 0 THEN n ELSE cfg.MaxIdleConns
      gp0 == [ unUsed |-> << >>,
               pool   |-> << >>,
               sem    |-> IF cfg.IsUseSemaphore THEN [cap |-> n, len |-> n] ELSE NilChan,
               config |-> cfg,
               st     |-> st ]
  IN  BuildInstances(gp0, 0, n, proxyURL, timeOut, finalMaxIdleConns, cfg)

\* NewGatherUtilPoolWithConfig(headers, proxyURL, timeOut, isCookieLogOpen, num, config)
NewGatherUtilPoolWithConfig(st, proxyURL, timeOut, n, cfg) ==
  BuildPool(st, proxyURL, timeOut, n, getValidatedConfig(cfg))

\* NewGatherUtilPool(headers, proxyURL, timeOut, isCookieLogOpen, num)
NewGatherUtilPool(st, proxyURL, timeOut, n) ==
  NewGatherUtilPoolWithConfig(st, proxyURL, timeOut, n, defaultPoolConfig)

\* The indices of the pool's instances.
Idx == 0..(Len(pool) - 1)

\* ------------------------------------------------------ pool calls ----
\* Positions of a pool call.
\*   sem      select on <-p.sem / <-ctx.Done()
\*   loop     head of the loop of getPoolIndex
\*   range    inside p.unUsed.Range
\*   delete   the callback saw a free index and is about to Delete it
\*   sleep    time.Sleep(RetryIntervalMs)
\*   lock     g.locker.Lock() of the leased instance
\*   exchange request construction through response handling
\*   relIdx   deferred p.unUsed.Store(poolIndex, true)
\*   relSem   deferred p.sem <- struct{}{}
AcquiringPcs == {"sem", "loop", "range", "delete", "sleep"}
HoldingPcs == {"lock", "exchange", "relIdx"}
RestingPcs == {"idle", "done", "panicked"}

NoResult == [html |-> "", redirectURL |-> "", err |-> "not called"]
NoFreeResult == [html |-> "", redirectURL |-> "", err |-> errNoFreeClinetFind]

\* A key of unUsed whose value is true.
IsFree(k) == k \in DOMAIN unUsed /\ unUsed[k]

\* Where a call goes after its last deferred function.
Returned(r) == IF r.err = "panic" THEN "panicked" ELSE "done"

\* Entry of Pool.Get / GetUtil / Post / PostUtil (each goroutine makes one
\* pool call): the context with the acquisition deadline is created; without
\* the semaphore the call goes straight into getPoolIndex (poolIndex := -1,
\* num := 0).  The four methods differ only in the instance method they
\* delegate to once an index is leased.
PoolCall(c) ==
  /\ Len(pool) > 0
  /\ pc[c] = "idle"
  /\ deadline' = [deadline EXCEPT ![c] = now + config.TimeoutSecond * 1000]
  /\ pc' = [pc EXCEPT ![c] = IF config.IsUseSemaphore THEN "sem" ELSE "loop"]
  /\ num' = [num EXCEPT ![c] = 0]
  /\ poolIndex' = [poolIndex EXCEPT ![c] = -1]
  /\ relSeen' = [d \in Callers |->
                   IF d = c \/ pc[d] \in AcquiringPcs THEN FALSE ELSE relSeen[d]]
  /\ starved' = [starved EXCEPT ![c] = \A k \in Idx : ~IsFree(k)]
  /\ UNCHANGED <<tvars, addvars, poolvars, args, hasPermit, visited, wake, res, now,
                 gavePermit, touched, exchanged>>

\* func (p *Pool) Get(URL, refererURL string)
PoolGet(c) == PoolCall(c)
\* func (p *Pool) GetUtil(URL, refererURL, cookies string)
PoolGetUtil(c) == PoolCall(c)
\* func (p *Pool) Post(URL, refererURL string, postMap map[string]string)
PoolPost(c) == PoolCall(c)
\* func (p *Pool) PostUtil(URL, refererURL, cookies string, postMap ...)
PoolPostUtil(c) == PoolCall(c)

\* The locals of the acquisition (ctx, num, the Range in progress, the
\* sleep) are dead once getPoolIndex has returned.
DropLocals(c) ==
  /\ deadline' = [deadline EXCEPT ![c] = 0]
  /\ num' = [num EXCEPT ![c] = 0]
  /\ visited' = [visited EXCEPT ![c] = {}]
  /\ wake' = [wake EXCEPT ![c] = 0]

\* SemAcquire with the receive leaving the permit in the channel.
SemAcquire_KeepsPermit(c) ==
  /\ pc[c] = "sem"
  /\ sem.len > 0
  /\ sem' = sem
  /\ hasPermit' = [hasPermit EXCEPT ![c] = TRUE]
  /\ pc' = [pc EXCEPT ![c] = "loop"]
  /\ UNCHANGED <<tvars, addvars, unUsed, pool, config, locker, args, deadline, num,
                 poolIndex, visited, wake, res, now, histvars>>

\* case <-p.sem: a permit is taken and its return is deferred.
SemAcquire(c) ==
  /\ pc[c] = "sem"
  /\ sem.len > 0
  /\ sem' = [sem EXCEPT !.len = @ - 1]
  /\ hasPermit' = [hasPermit EXCEPT ![c] = TRUE]
  /\ pc' = [pc EXCEPT ![c] = "loop"]
  /\ UNCHANGED <<tvars, addvars, unUsed, pool, config, locker, args, deadline, num,
                 poolIndex, visited, wake, res, now, histvars>>

\* SemTimeout returning the context's error instead of the sentinel.
SemTimeout_CtxErr(c) ==
  /\ pc[c] = "sem"
  /\ now >= deadline[c]
  /\ res' = [res EXCEPT ![c] =
               [html |-> "", redirectURL |-> "", err |-> "context deadline exceeded"]]
  /\ pc' = [pc EXCEPT ![c] = "done"]
  /\ DropLocals(c)
  /\ UNCHANGED <<tvars, addvars, poolvars, args, hasPermit, poolIndex, now, histvars>>

\* SemTimeout with the permit return deferred before the select instead of
\* inside case <-p.sem: the timed-out call sends a permit it never took.
SemTimeout_DefersReturn(c) ==
  /\ pc[c] = "sem"
  /\ now >= deadline[c]
  /\ res' = [res EXCEPT ![c] = NoFreeResult]
  /\ pc' = [pc EXCEPT ![c] = "relSem"]
  /\ DropLocals(c)
  /\ UNCHANGED <<tvars, addvars, poolvars, args, hasPermit, poolIndex, now, histvars>>

\* case <-ctx.Done(): return "", "", errNoFreeClinetFind
SemTimeout(c) ==
  /\ pc[c] = "sem"
  /\ now >= deadline[c]
  /\ res' = [res EXCEPT ![c] = NoFreeResult]
  /\ pc' = [pc EXCEPT ![c] = "done"]
  /\ DropLocals(c)
  /\ UNCHANGED <<tvars, addvars, poolvars, args, hasPermit, poolIndex, now, histvars>>

\* maxRetry := (TimeoutSecond * 1000) / RetryIntervalMs
maxRetry == (config.TimeoutSecond * 1000) \div config.RetryIntervalMs

\* GetPoolIndexLoop with the Store deferred before the "poolIndex == -1"
\* test, so that a failed scan still stores a flag.
GetPoolIndexLoop_StoresOnFailure(c) ==
  /\ pc[c] = "loop"
  /\ IF num[c] < maxRetry /\ now < deadline[c]
     THEN /\ pc' = [pc EXCEPT ![c] = "range"]
          /\ visited' = [visited EXCEPT ![c] = {}]
          /\ UNCHANGED <<res, deadline, num, wake>>
     ELSE /\ pc' = [pc EXCEPT ![c] = "relIdx"]
          /\ res' = [res EXCEPT ![c] = NoFreeResult]
          /\ DropLocals(c)
  /\ UNCHANGED <<tvars, addvars, poolvars, args, hasPermit, poolIndex, now, histvars>>

\* Head of the loop of getPoolIndex: while num < maxRetry and the context is
\* not done a Range starts; otherwise getPoolIndex returns -1, the method
\* returns errNoFreeClinetFind and only the permit return is deferred.
GetPoolIndexLoop(c) ==
  /\ pc[c] = "loop"
  /\ IF num[c] < maxRetry /\ now < deadline[c]
     THEN /\ pc' = [pc EXCEPT ![c] = "range"]
          /\ visited' = [visited EXCEPT ![c] = {}]
          /\ UNCHANGED <<res, deadline, num, wake>>
     ELSE /\ pc' = [pc EXCEPT ![c] = IF hasPermit[c] THEN "relSem" ELSE "done"]
          /\ res' = [res EXCEPT ![c] = NoFreeResult]
          /\ DropLocals(c)
  /\ UNCHANGED <<tvars, addvars, poolvars, args, hasPermit, poolIndex, now, histvars>>

\* One call of the Range callback, on a key not yet visited by this Range:
\* a key whose value is true becomes poolIndex, any other key is passed.
RangeVisit(c, k) ==
  /\ pc[c] = "range"
  /\ k \in Idx \ visited[c]
  /\ IF IsFree(k)
     THEN /\ poolIndex' = [poolIndex EXCEPT ![c] = k]
          /\ pc' = [pc EXCEPT ![c] = "delete"]
          /\ visited' = visited
     ELSE /\ visited' = [visited EXCEPT ![c] = @ \cup {k}]
          /\ UNCHANGED <<poolIndex, pc>>
  /\ UNCHANGED <<tvars, addvars, poolvars, args, deadline, hasPermit, num, wake,
                 res, now, histvars>>

\* p.unUsed.Delete(idx) in the callback; Range stops, the loop breaks,
\* getPoolIndex returns the index, the method defers the Store and calls
\* the instance, which starts with g.locker.Lock().
Delete(c) ==
  /\ pc[c] = "delete"
  /\ unUsed' = [k \in DOMAIN unUsed \ {poolIndex[c]} |-> unUsed[k]]
  /\ touched' = [touched EXCEPT ![c] = TRUE]
  /\ pc' = [pc EXCEPT ![c] = "lock"]
  /\ DropLocals(c)
  /\ UNCHANGED <<tvars, addvars, pool, sem, config, locker, args, hasPermit, poolIndex,
                 res, now, gavePermit, exchanged, relSeen, starved>>

\* Range has passed every key without finding a free one: time.Sleep starts.
RangeEnd(c) ==
  /\ pc[c] = "range"
  /\ visited[c] = Idx
  /\ wake' = [wake EXCEPT ![c] = now + config.RetryIntervalMs]
  /\ pc' = [pc EXCEPT ![c] = "sleep"]
  /\ UNCHANGED <<tvars, addvars, poolvars, args, deadline, hasPermit, num,
                 poolIndex, visited, res, now, histvars>>

\* time.Sleep is over: num++ and back to the loop head.
SleepEnd(c) ==
  /\ pc[c] = "sleep"
  /\ now >= wake[c]
  /\ num' = [num EXCEPT ![c] = @ + 1]
  /\ pc' = [pc EXCEPT ![c] = "loop"]
  /\ UNCHANGED <<tvars, addvars, poolvars, args, deadline, hasPermit, poolIndex,
                 visited, wake, res, now, histvars>>

\* g.locker.Lock() of GetUtil / PostUtil on the leased instance.
Lock(c) ==
  /\ pc[c] = "lock"
  /\ locker[poolIndex[c]] = Nil
  /\ locker' = [locker EXCEPT ![poolIndex[c]] = c]
  /\ exchanged' = [exchanged EXCEPT ![c] = TRUE]
  /\ pc' = [pc EXCEPT ![c] = "exchange"]
  /\ UNCHANGED <<tvars, addvars, unUsed, pool, sem, config, args, deadline,
                 hasPermit, num, poolIndex, visited, wake, res, now,
                 gavePermit, touched, relSeen, starved>>

\* What an exchange can end in: content, an error value, or an abort.
Outcomes == {"ok", "error", "panic"}

ExchangeResult(o) ==
  IF o = "ok" THEN [html |-> "html", redirectURL |-> "URL", err |-> ""]
  ELSE IF o = "error" THEN [html |-> "", redirectURL |-> "", err |-> "exchange error"]
  ELSE [html |-> "", redirectURL |-> "", err |-> "panic"]

\* ExchangeEnd with the releases written after the delegated call instead
\* of deferred: an error or an abort returns without releasing.
ExchangeEnd_LeaksOnFailure(c, o) ==
  /\ pc[c] = "exchange"
  /\ res' = [res EXCEPT ![c] = ExchangeResult(o)]
  /\ locker' = [locker EXCEPT ![poolIndex[c]] = Nil]
  /\ pc' = [pc EXCEPT ![c] = IF o = "ok" THEN "relIdx" ELSE Returned(ExchangeResult(o))]
  /\ UNCHANGED <<tvars, addvars, unUsed, pool, sem, config, args, deadline,
                 hasPermit, num, poolIndex, visited, wake, now, histvars>>

\* The exchange ends and the deferred g.locker.Unlock() runs.
ExchangeEnd(c, o) ==
  /\ pc[c] = "exchange"
  /\ res' = [res EXCEPT ![c] = ExchangeResult(o)]
  /\ locker' = [locker EXCEPT ![poolIndex[c]] = Nil]
  /\ pc' = [pc EXCEPT ![c] = "relIdx"]
  /\ UNCHANGED <<tvars, addvars, unUsed, pool, sem, config, args, deadline,
                 hasPermit, num, poolIndex, visited, wake, now, histvars>>

\* A holder's release is seen by waiter d: the pool was fully leased, d is
\* acquiring with its deadline ahead, and nobody else is acquiring.
SeesRelease(c, d) ==
  /\ d # c
  /\ pc[d] \in AcquiringPcs
  /\ now < deadline[d]
  /\ \A k \in Idx : ~IsFree(k)
  /\ \A e \in Callers \ {c, d} : pc[e] \notin AcquiringPcs

\* defer p.unUsed.Store(poolIndex, true)
StoreFree(c) ==
  /\ pc[c] = "relIdx"
  /\ unUsed' = [k \in DOMAIN unUsed \cup {poolIndex[c]} |->
                  IF k = poolIndex[c] THEN TRUE ELSE unUsed[k]]
  /\ touched' = [touched EXCEPT ![c] = TRUE]
  /\ relSeen' = [d \in Callers |-> relSeen[d] \/ SeesRelease(c, d)]
  /\ starved' = [d \in Callers |-> FALSE]
  /\ pc' = [pc EXCEPT ![c] = IF hasPermit[c] THEN "relSem" ELSE Returned(res[c])]
  /\ UNCHANGED <<tvars, addvars, pool, sem, config, locker, args, deadline,
                 hasPermit, num, poolIndex, visited, wake, res, now,
                 gavePermit, exchanged>>

\* SemRelease on a channel made one slot short of the pool size
\* (make(chan struct{}, num-1)): the last permit cannot be sent back.
SemRelease_OneSlotShort(c) ==
  /\ pc[c] = "relSem"
  /\ sem.len + 1 < sem.cap
  /\ sem' = [sem EXCEPT !.len = @ + 1]
  /\ gavePermit' = [gavePermit EXCEPT ![c] = TRUE]
  /\ pc' = [pc EXCEPT ![c] = Returned(res[c])]
  /\ UNCHANGED <<tvars, addvars, unUsed, pool, config, locker, args, deadline,
                 hasPermit, num, poolIndex, visited, wake, res, now,
                 touched, exchanged, relSeen, starved>>

\* defer func() { p.sem <- struct{}{} }(): blocks while the channel is full.
SemRelease(c) ==
  /\ pc[c] = "relSem"
  /\ sem.len < sem.cap
  /\ sem' = [sem EXCEPT !.len = @ + 1]
  /\ gavePermit' = [gavePermit EXCEPT ![c] = TRUE]
  /\ pc' = [pc EXCEPT ![c] = Returned(res[c])]
  /\ UNCHANGED <<tvars, addvars, unUsed, pool, config, locker, args, deadline,
                 hasPermit, num, poolIndex, visited, wake, res, now,
                 touched, exchanged, relSeen, starved>>

\* A caller that cannot take a step at the present instant.
Blocked(c) ==
  \/ pc[c] \in RestingPcs \cup {"exchange"}
  \/ pc[c] = "sem" /\ sem.len = 0 /\ now < deadline[c]
  \/ pc[c] = "sleep" /\ now < wake[c]
  \/ pc[c] = "lock" /\ locker[poolIndex[c]] # Nil
  \/ pc[c] = "relSem" /\ sem.len = sem.cap

\* The clock advances by one retry interval.
Tick ==
  /\ Len(pool) > 0
  /\ now < MaxTicks * config.RetryIntervalMs
  /\ now' = now + config.RetryIntervalMs
  /\ UNCHANGED <<tvars, addvars, poolvars, args, pc, deadline, hasPermit, num,
                 poolIndex, visited, wake, res, histvars>>

\* The clock advances only when every caller is blocked: steps take no time.
TickUrgent ==
  /\ \A c \in Callers : Blocked(c)
  /\ Tick

\* ------------------------------------------ configuration registry ----
\* Durations are in milliseconds.
\* minDialTimeout := 1 * time.Second
minDialTimeout == 1000
\* minTLSTimeout := 1 * time.Second
minTLSTimeout == 1000
\* minExpectTimeout := 500 * time.Millisecond
minExpectTimeout == 500
\* minResponseHeaderTimeout := 2 * time.Second
minResponseHeaderTimeout == 2000

\* A nil *GatherConfig.
NilConfig ==
  [ nil                   |-> TRUE,
    MaxIdleConns          |-> 0,
    MaxIdleConnsPerHost   |-> 0,
    IdleConnTimeout       |-> 0,
    TLSInsecureSkipVerify |-> FALSE,
    DialTimeout           |-> 0,
    TLSHandshakeTimeout   |-> 0,
    ExpectContinueTimeout |-> 0,
    ResponseHeaderTimeout |-> 0,
    DisableCompression    |-> FALSE,
    ForceAttemptHTTP2     |-> FALSE,
    TCPLinger             |-> 0,
    KeepAlive             |-> 0 ]

\* No panic is under way.
NoPanic == [fn |-> "", fields |-> << >>]

\* errMsgs that stops at the first violated rule.
errMsgs_FirstOnly(cfg) ==
  IF cfg.MaxIdleConns <= 0 THEN <<"MaxIdleConns">>
  ELSE IF cfg.MaxIdleConnsPerHost <= 0 THEN <<"MaxIdleConnsPerHost">>
  ELSE IF cfg.IdleConnTimeout <= 0 THEN <<"IdleConnTimeout">>
  ELSE IF cfg.DialTimeout < 0 THEN <<"DialTimeout">>
  ELSE IF cfg.TLSHandshakeTimeout < 0 THEN <<"TLSHandshakeTimeout">>
  ELSE IF cfg.ExpectContinueTimeout < 0 THEN <<"ExpectContinueTimeout">>
  ELSE IF cfg.ResponseHeaderTimeout < 0 THEN <<"ResponseHeaderTimeout">>
  ELSE IF cfg.TCPLinger < 0 THEN <<"TCPLinger">>
  ELSE IF cfg.KeepAlive <= 0 THEN <<"KeepAlive">>
  ELSE << >>

\* errMsgs of SetGatherConfig: one entry per violated rule, in the order of
\* the checks; an entry is kept as the name of the field it reports.
errMsgs(cfg) ==
  LET checks ==
        << [field |-> "MaxIdleConns",          bad |-> cfg.MaxIdleConns <= 0],
           [field |-> "MaxIdleConnsPerHost",   bad |-> cfg.MaxIdleConnsPerHost <= 0],
           [field |-> "IdleConnTimeout",       bad |-> cfg.IdleConnTimeout <= 0],
           [field |-> "DialTimeout",           bad |-> cfg.DialTimeout < 0],
           [field |-> "TLSHandshakeTimeout",   bad |-> cfg.TLSHandshakeTimeout < 0],
           [field |-> "ExpectContinueTimeout", bad |-> cfg.ExpectContinueTimeout < 0],
           [field |-> "ResponseHeaderTimeout", bad |-> cfg.ResponseHeaderTimeout < 0],
           [field |-> "TCPLinger",             bad |-> cfg.TCPLinger < 0],
           [field |-> "KeepAlive",             bad |-> cfg.KeepAlive <= 0] >>
      hit == SelectSeq(checks, LAMBDA x : x.bad)
  IN  [i \in 1..Len(hit) |-> hit[i].field]

\* The registry as one value, for a caller nobody interleaves with.
RegistryState ==
  [ globalConfig     |-> globalConfig,
    cfgVersion       |-> cfgVersion,
    transports       |-> transports,
    transportNoProxy |-> transportNoProxy ]

\* SetGatherConfig that resets the singleton before it validates.
SetGatherConfig_ResetsBeforeValidating(st, cfg) ==
  LET st1 == [st EXCEPT !.transportNoProxy = Nil]
  IN  IF cfg.nil
      THEN [st |-> st1, panic |-> [fn |-> "SetGatherConfig", fields |-> <<"cfg">>]]
      ELSE IF Len(errMsgs(cfg)) > 0
      THEN [st |-> st1, panic |-> [fn |-> "SetGatherConfig", fields |-> errMsgs(cfg)]]
      ELSE [st |-> [st1 EXCEPT !.globalConfig = cfg, !.cfgVersion = @ + 1],
            panic |-> NoPanic]

\* SetGatherConfig that leaves the cached direct-connection transport in
\* place.
SetGatherConfig_KeepsSingleton(st, cfg) ==
  IF cfg.nil
  THEN [st |-> st, panic |-> [fn |-> "SetGatherConfig", fields |-> <<"cfg">>]]
  ELSE IF Len(errMsgs(cfg)) > 0
  THEN [st |-> st, panic |-> [fn |-> "SetGatherConfig", fields |-> errMsgs(cfg)]]
  ELSE [st |-> [st EXCEPT !.globalConfig = cfg,
                          !.cfgVersion = @ + 1],
        panic |-> NoPanic]

\* SetGatherConfig that stores cfg before it validates it: the panic comes
\* with the violating configuration already active.
SetGatherConfig_StoresBeforeValidating(st, cfg) ==
  LET st1 == [st EXCEPT !.transportNoProxy = Nil,
                        !.globalConfig = cfg,
                        !.cfgVersion = @ + 1]
  IN  IF cfg.nil
      THEN [st |-> st, panic |-> [fn |-> "SetGatherConfig", fields |-> <<"cfg">>]]
      ELSE IF Len(errMsgs(cfg)) > 0
      THEN [st |-> st1, panic |-> [fn |-> "SetGatherConfig", fields |-> errMsgs(cfg)]]
      ELSE [st |-> st1, panic |-> NoPanic]

\* SetGatherConfig(cfg) run without interleaving: the panic it ends in (or
\* NoPanic) and the registry it leaves.
SetGatherConfig(st, cfg) ==
  IF cfg.nil
  THEN [st |-> st, panic |-> [fn |-> "SetGatherConfig", fields |-> <<"cfg">>]]
  ELSE IF Len(errMsgs(cfg)) > 0
  THEN [st |-> st, panic |-> [fn |-> "SetGatherConfig", fields |-> errMsgs(cfg)]]
  ELSE [st |-> [st EXCEPT !.transportNoProxy = Nil,
                          !.globalConfig = cfg,
                          !.cfgVersion = @ + 1],
        panic |-> NoPanic]

\* The derivation without the minimum of each phase.
DeriveConfig_NoFloors(totalTimeout, isSlowConn, tlsInsecure) ==
  [ nil                   |-> FALSE,
    MaxIdleConns          |-> 100,
    MaxIdleConnsPerHost   |-> 100,
    IdleConnTimeout       |-> IF isSlowConn THEN 90000 ELSE 30000,
    TLSInsecureSkipVerify |-> tlsInsecure,
    DialTimeout           |-> ScaleByRatio(totalTimeout, 200),
    TLSHandshakeTimeout   |-> ScaleByRatio(totalTimeout, 200),
    ExpectContinueTimeout |-> ScaleByRatio(totalTimeout, 100),
    ResponseHeaderTimeout |-> IF isSlowConn THEN 0
                              ELSE ScaleByRatio(totalTimeout, 400),
    DisableCompression    |-> ~isSlowConn,
    ForceAttemptHTTP2     |-> ~isSlowConn,
    TCPLinger             |-> IF isSlowConn THEN 1 ELSE 0,
    KeepAlive             |-> IF isSlowConn THEN 60000 ELSE 30000 ]

\* The derivation leaving the slow profile its 40 % response-header share.
DeriveConfig_NoSlowOverride(totalTimeout, isSlowConn, tlsInsecure) ==
  LET dialShare     == ScaleByRatio(totalTimeout, 200)
      tlsShare      == ScaleByRatio(totalTimeout, 200)
      expectShare   == ScaleByRatio(totalTimeout, 100)
      responseShare == ScaleByRatio(totalTimeout, 400)
  IN  [ nil                   |-> FALSE,
        MaxIdleConns          |-> 100,
        MaxIdleConnsPerHost   |-> 100,
        IdleConnTimeout       |-> IF isSlowConn THEN 90000 ELSE 30000,
        TLSInsecureSkipVerify |-> tlsInsecure,
        DialTimeout           |-> IF dialShare < minDialTimeout
                                  THEN minDialTimeout ELSE dialShare,
        TLSHandshakeTimeout   |-> IF tlsShare < minTLSTimeout
                                  THEN minTLSTimeout ELSE tlsShare,
        ExpectContinueTimeout |-> IF expectShare < minExpectTimeout
                                  THEN minExpectTimeout ELSE expectShare,
        ResponseHeaderTimeout |-> IF responseShare < minResponseHeaderTimeout
                                  THEN minResponseHeaderTimeout ELSE responseShare,
        DisableCompression    |-> ~isSlowConn,
        ForceAttemptHTTP2     |-> ~isSlowConn,
        TCPLinger             |-> IF isSlowConn THEN 1 ELSE 0,
        KeepAlive             |-> IF isSlowConn THEN 60000 ELSE 30000 ]

\* The configuration SetGatherConfigByClientTimeout assembles for a total
\* timeout > 0: each phase gets its share of the total, raised to its
\* minimum; the slow profile then waits for response headers without limit.
DeriveConfig(totalTimeout, isSlowConn, tlsInsecure) ==
  LET dialShare     == ScaleByRatio(totalTimeout, 200)
      tlsShare      == ScaleByRatio(totalTimeout, 200)
      expectShare   == ScaleByRatio(totalTimeout, 100)
      responseShare == ScaleByRatio(totalTimeout, 400)
      responseHeaderTimeout ==
        IF responseShare < minResponseHeaderTimeout
        THEN minResponseHeaderTimeout ELSE responseShare
  IN  [ nil                   |-> FALSE,
        MaxIdleConns          |-> 100,
        MaxIdleConnsPerHost   |-> 100,
        IdleConnTimeout       |-> IF isSlowConn THEN 90000 ELSE 30000,
        TLSInsecureSkipVerify |-> tlsInsecure,
        DialTimeout           |-> IF dialShare < minDialTimeout
                                  THEN minDialTimeout ELSE dialShare,
        TLSHandshakeTimeout   |-> IF tlsShare < minTLSTimeout
                                  THEN minTLSTimeout ELSE tlsShare,
        ExpectContinueTimeout |-> IF expectShare < minExpectTimeout
                                  THEN minExpectTimeout ELSE expectShare,
        ResponseHeaderTimeout |-> IF isSlowConn THEN 0 ELSE responseHeaderTimeout,
        DisableCompression    |-> ~isSlowConn,
        ForceAttemptHTTP2     |-> ~isSlowConn,
        TCPLinger             |-> IF isSlowConn THEN 1 ELSE 0,
        KeepAlive             |-> IF isSlowConn THEN 60000 ELSE 30000 ]

\* SetGatherConfigByClientTimeout replacing a non-positive total by ten
\* minutes.
SetGatherConfigByClientTimeout_DefaultsTotal(st, totalTimeout, isSlowConn, tlsInsecure) ==
  SetGatherConfig(st, DeriveConfig(IF totalTimeout <= 0 THEN 600000 ELSE totalTimeout,
                                   isSlowConn, tlsInsecure))

\* SetGatherConfigByClientTimeout(totalTimeout, isSlowConn, tlsInsecure)
SetGatherConfigByClientTimeout(st, totalTimeout, isSlowConn, tlsInsecure) ==
  IF totalTimeout <= 0
  THEN [st |-> st,
        panic |-> [fn |-> "SetGatherConfigByClientTimeout",
                   fields |-> <<"totalTimeout">>]]
  ELSE SetGatherConfig(st, DeriveConfig(totalTimeout, isSlowConn, tlsInsecure))

\* UseSlowConnConfig(): 10 minutes, slow, certificates not verified.
UseSlowConnConfig(st) ==
  SetGatherConfigByClientTimeout(st, 600000, TRUE, TRUE)

\* UseFastConnConfig with the inputs of UseSlowConnConfig.
UseFastConnConfig_AsSlow(st) ==
  SetGatherConfigByClientTimeout(st, 600000, TRUE, TRUE)

\* UseFastConnConfig(): 30 seconds, fast, certificates not verified.
UseFastConnConfig(st) ==
  SetGatherConfigByClientTimeout(st, 30000, FALSE, TRUE)

\* newTransport(cfg, proxy): a transport carrying the settings of cfg; ver
\* remembers which installed configuration cfg was.
newTransport(cfg, proxy, ver) ==
  [ Proxy                 |-> proxy,
    MaxIdleConns          |-> cfg.MaxIdleConns,
    MaxIdleConnsPerHost   |-> cfg.MaxIdleConnsPerHost,
    IdleConnTimeout       |-> cfg.IdleConnTimeout,
    TLSInsecureSkipVerify |-> cfg.TLSInsecureSkipVerify,
    DialTimeout           |-> cfg.DialTimeout,
    TLSHandshakeTimeout   |-> cfg.TLSHandshakeTimeout,
    ExpectContinueTimeout |-> cfg.ExpectContinueTimeout,
    ResponseHeaderTimeout |-> cfg.ResponseHeaderTimeout,
    DisableCompression    |-> cfg.DisableCompression,
    ForceAttemptHTTP2     |-> cfg.ForceAttemptHTTP2,
    TCPLinger             |-> cfg.TCPLinger,
    KeepAlive             |-> cfg.KeepAlive,
    ver                   |-> ver ]

\* The body of the registry's getHttpTransport under transportLocker, cfg
\* and ver being the snapshot it took before: the singleton for the direct
\* connection (built if absent), a new transport for a proxy.
TransportFor(st, proxyURL, cfg, ver) ==
  LET id == Len(st.transports) + 1
  IN  IF proxyURL = ""
      THEN IF st.transportNoProxy = Nil
           THEN [ ret |-> id,
                  st  |-> [st EXCEPT !.transports = Append(@, newTransport(cfg, "", ver)),
                                     !.transportNoProxy = id] ]
           ELSE [ret |-> st.transportNoProxy, st |-> st]
      ELSE [ ret |-> id,
             st  |-> [st EXCEPT !.transports = Append(@, newTransport(cfg, proxyURL, ver))] ]

\* The registry's getHttpTransport run without interleaving.
getHttpTransportByConfig(st, proxyURL) ==
  TransportFor(st, proxyURL, st.globalConfig, st.cfgVersion)

\* func init() { UseSlowConnConfig() }: the registry when the package is
\* loaded.
InitialRegistry ==
  UseSlowConnConfig([ globalConfig     |-> NilConfig,
                      cfgVersion       |-> 0,
                      transports       |-> << >>,
                      transportNoProxy |-> Nil ]).st

\* No configuration call is under examination.
NoCfgCall ==
  [ fn           |-> "",
    cfg          |-> NilConfig,
    totalTimeout |-> 0,
    isSlowConn   |-> FALSE,
    tlsInsecure  |-> FALSE,
    over         |-> FALSE,
    panic        |-> NoPanic,
    old          |-> InitialRegistry ]

\* ------------------------------ authenticated-proxy constructors ----
\* A proxy address as the caller writes it: an optional scheme prefix and
\* the rest. strings.Contains(proxyUrl, "http") is "the prefix is there".
NoProxyAddr == [scheme |-> "", rest |-> ""]

\* The addresses net/url refuses after the prefix is completed: an invalid
\* percent escape in the host, and an IPv6 literal without its "]".
UnparsableRests == {"%zz:8080", "[::1"}

\* (*url.URL)(nil)
NilURL == [nil |-> TRUE, Scheme |-> "", Host |-> "", User |-> ""]

\* parseProxyURLWithAuth(proxyUrl, user, pass): (*url.URL, error)
parseProxyURLWithAuth(proxyUrl, user, pass) ==
  LET scheme == IF proxyUrl.scheme = "" THEN "http://" ELSE proxyUrl.scheme
  IN  IF proxyUrl.rest \in UnparsableRests
      THEN [url |-> NilURL, err |-> TRUE]
      ELSE [url |-> [nil    |-> FALSE,
                     Scheme |-> scheme,
                     Host   |-> proxyUrl.rest,
                     User   |-> IF user # "" /\ pass # "" THEN user ELSE ""],
            err |-> FALSE]

\* newBaseTransportWithAuth(proxyURL)
newBaseTransportWithAuth(proxyURL) ==
  [ Proxy               |-> proxyURL,
    MaxIdleConns        |-> MaxIdleConns,
    MaxIdleConnsPerHost |-> MaxIdleConns ]

\* getHttpTransportHasPass(proxyUrl, user, pass): a new transport on every
\* call; on a parse error one log line and nil. ts is the transports
\* allocated so far.
getHttpTransportHasPass(ts, proxyUrl, user, pass) ==
  LET p == parseProxyURLWithAuth(proxyUrl, user, pass)
  IN  IF p.err
      THEN [transports |-> ts, ret |-> Nil, logs |-> 1]
      ELSE [transports |-> Append(ts, newBaseTransportWithAuth(p.url)),
            ret |-> Len(ts) + 1, logs |-> 0]

\* (*GatherStruct)(nil)
NilGather ==
  [ nil    |-> TRUE,
    Client |-> [nil |-> TRUE, Transport |-> Nil, Jar |-> "", Timeout |-> 0],
    J      |-> "" ]

\* NewGatherUtilHasPass(headers, proxyURL, user, pass, timeOut,
\* isCookieLogOpen); Timeout in seconds. A nil transport gives the instance
\* a client without transport and without cookie jar.
NewGatherUtilHasPass(ts, proxyURL, user, pass, timeOut) ==
  LET timeout == IF timeOut <= 0 THEN 0 ELSE timeOut
      t       == getHttpTransportHasPass(ts, proxyURL, user, pass)
  IN  IF t.ret = Nil
      THEN [ga |-> [nil    |-> FALSE,
                    Client |-> [nil |-> FALSE, Transport |-> Nil, Jar |-> "",
                                Timeout |-> timeout],
                    J      |-> "J"],
            transports |-> t.transports,
            logs |-> t.logs + 1]
      ELSE [ga |-> [nil    |-> FALSE,
                    Client |-> [nil |-> FALSE, Transport |-> t.ret, Jar |-> "J",
                                Timeout |-> timeout],
                    J      |-> "J"],
            transports |-> t.transports,
            logs |-> t.logs]

\* NewGatherProxyHasPassUtil(headers, proxyURL, user, pass, isCookieLogOpen)
NewGatherProxyHasPassUtil(ts, proxyURL, user, pass) ==
  NewGatherUtilHasPass(ts, proxyURL, user, pass, 300)

\* No authenticated-proxy constructor call is under examination.
NoHasPass ==
  [ fn |-> "", proxyURL |-> NoProxyAddr, user |-> "", pass |-> "",
    timeOut |-> 0, over |-> FALSE, ga |-> NilGather, logs |-> 0 ]

\* No argument, and no snapshot taken, by a registry caller.
NoRegistryArg == [cfg |-> NilConfig, proxyURL |-> ""]

NoSnapshot == [cfg |-> NilConfig, ver |-> 0]

\* Nobody calls the registry.
InitRegistryCalls ==
  /\ configLocker = Nil
  /\ transportLocker = Nil
  /\ returnedVersion = InitialRegistry.cfgVersion
  /\ gpc = [c \in Callers |-> "idle"]
  /\ gfn = [c \in Callers |-> ""]
  /\ garg = [c \in Callers |-> NoRegistryArg]
  /\ gsnap = [c \in Callers |-> NoSnapshot]
  /\ gret = [c \in Callers |-> Nil]
  /\ gstale = [c \in Callers |-> FALSE]

\* The registry as the package's init() leaves it, nobody calling.
InitRegistry ==
  /\ globalConfig = InitialRegistry.globalConfig
  /\ cfgVersion = InitialRegistry.cfgVersion
  /\ cfgCall = NoCfgCall
  /\ hasPass = NoHasPass
  /\ InitRegistryCalls


\* ---------------------------------------------- client instances ----
Instances == 1..NumInstances

\* Bytes a response body is made of: the gzip magic 0x1F 0x8B, the deflate
\* method byte 8, and a letter. The bodies examined have, at each of their
\* first three places, the byte of a gzip header or the letter.
Bytes == {31, 139, 8, 65}

\* A response body: its length, its first (up to three) bytes, and whether
\* what follows a gzip header is a complete deflate stream with the right
\* trailer. compress/gzip needs 10 header bytes, and 20 bytes for the
\* smallest member.
EmptyBody == [len |-> 0, head |-> << >>, sound |-> FALSE]

BodiesOfLen(n) ==
  UNION { { [len |-> n, head |-> h, sound |-> b] :
              b \in {FALSE} \cup {n >= 20 /\ h = <<31, 139, 8>>} } :
          h \in {f \in [1..(IF n < 3 THEN n ELSE 3) -> Bytes] :
                    \A i \in DOMAIN f : f[i] \in {<<31, 139, 8>>[i], 65}} }

Bodies == UNION {BodiesOfLen(n) : n \in 0..MaxBodyLen}

\* A Go string made from a body: "" , string(data), or the text a gzip
\* reader inflated from data.
EmptyString == [kind |-> "empty", data |-> EmptyBody]

String(data) ==
  IF data.len = 0 THEN EmptyString ELSE [kind |-> "raw", data |-> data]

Inflated(data) == [kind |-> "inflated", data |-> data]

\* gzip.NewReader(bytes.NewReader(data)): the error of reading the header.
gzipNewReader(data) ==
  IF data.len = 0 THEN "EOF"
  ELSE IF data.len < 10 THEN "unexpected EOF"
  ELSE IF data.head # <<31, 139, 8>> THEN "gzip: invalid header"
  ELSE ""

\* io.ReadAll(reader) on a reader gzip.NewReader accepted.
gzipReadAll(data) ==
  IF data.sound THEN "" ELSE "unexpected EOF"

\* Ungzip of src/util.go: (string, error)
UngzipByMagic(data) ==
  IF data.len = 0 THEN [s |-> EmptyString, err |-> ""]
  ELSE IF data.len < 2 \/ data.head[1] # 31 \/ data.head[2] # 139
  THEN [s |-> String(data), err |-> ""]
  ELSE IF gzipNewReader(data) # ""
  THEN [s |-> EmptyString, err |-> gzipNewReader(data)]
  ELSE IF gzipReadAll(data) # ""
  THEN [s |-> EmptyString, err |-> gzipReadAll(data)]
  ELSE [s |-> Inflated(data), err |-> ""]

\* Ungzip of src/unnamed/part_001: (string, error); the two wrapped errors
\* are shortened to "gzip: ..." and "read gzip: ...".
UngzipByErrorText(data) ==
  IF data.len = 0 THEN [s |-> EmptyString, err |-> ""]
  ELSE IF gzipNewReader(data) = "gzip: invalid header"
  THEN [s |-> String(data), err |-> ""]
  ELSE IF gzipNewReader(data) # ""
  THEN [s |-> EmptyString, err |-> "gzip: " \o gzipNewReader(data)]
  ELSE IF gzipReadAll(data) # ""
  THEN [s |-> EmptyString, err |-> "read gzip: " \o gzipReadAll(data)]
  ELSE [s |-> Inflated(data), err |-> ""]

\* Ungzip(data) of the build v.
Ungzip(v, data) ==
  IF v = "util.go" THEN UngzipByMagic(data) ELSE UngzipByErrorText(data)

\* A *GatherStruct: nil, or with or without its Client, and its safeHeaders.
NilInstance ==
  [nil |-> TRUE, Client |-> [nil |-> TRUE], safeHeaders |-> << >>]

\* (*http.Request)(nil)
NoRequest ==
  [nil |-> TRUE, Method |-> "", URL |-> "", Header |-> << >>]

\* What Client.Do delivers: an error, or a response with its status, its
\* body, and whether the body can be read to its end.
NoResponse ==
  [err |-> "", StatusCode |-> 0, Body |-> EmptyBody, readErr |-> ""]

\* (html, redirectURL, err) of an instance method; panic is set when the
\* call did not return.
NoExchangeResult ==
  [html |-> EmptyString, redirectURL |-> "", err |-> "", panic |-> ""]

\* m with key k set to v: sync.Map.Store, http.Header.Set
Store(m, k, v) ==
  [h \in DOMAIN m \cup {k} |-> IF h = k THEN v ELSE m[h]]

\* URLs http.NewRequest cannot parse.
BadURLs == {"http://%zz"}

\* newHttpRequest writing the referer and the cookie into safeHeaders.
newHttpRequest_IntoStore(ga, method, URL, refererURL, cookies) ==
  IF ga.nil \/ ga.Client.nil
  THEN [req |-> NoRequest, err |-> "", panic |-> "FATAL", ga |-> ga]
  ELSE IF URL \in BadURLs
  THEN [req |-> NoRequest, err |-> "parse", panic |-> "", ga |-> ga]
  ELSE LET h1 == IF refererURL # ""
                 THEN Store(ga.safeHeaders, "Referer", refererURL)
                 ELSE ga.safeHeaders
           h2 == IF cookies # "" THEN Store(h1, "Cookie", cookies) ELSE h1
       IN  [ req   |-> [nil |-> FALSE, Method |-> method, URL |-> URL,
                        Header |-> h2],
             err   |-> "",
             panic |-> "",
             ga    |-> [ga EXCEPT !.safeHeaders = h2] ]

\* newHttpRequest answering an instance without client by an ordinary error.
newHttpRequest_ErrorForPanic(ga, method, URL, refererURL, cookies) ==
  IF ga.nil \/ ga.Client.nil
  THEN [req |-> NoRequest, err |-> "not initialized", panic |-> "", ga |-> ga]
  ELSE IF URL \in BadURLs
  THEN [req |-> NoRequest, err |-> "parse", panic |-> "", ga |-> ga]
  ELSE LET keys == {k \in DOMAIN ga.safeHeaders :
                      k # "" /\ ga.safeHeaders[k] # ""}
           h0 == [k \in keys |-> ga.safeHeaders[k]]
           h1 == IF refererURL # "" THEN Store(h0, "Referer", refererURL) ELSE h0
           h2 == IF cookies # "" THEN Store(h1, "Cookie", cookies) ELSE h1
       IN  [ req   |-> [nil |-> FALSE, Method |-> method, URL |-> URL,
                        Header |-> h2],
             err   |-> "",
             panic |-> "",
             ga    |-> ga ]

\* g.newHttpRequest(method, URL, refererURL, cookies, body): the request, the
\* error, the panic, and the instance as the call leaves it. Empty keys and
\* values of safeHeaders are skipped.
newHttpRequest(ga, method, URL, refererURL, cookies) ==
  IF ga.nil \/ ga.Client.nil
  THEN [req |-> NoRequest, err |-> "", panic |-> "FATAL", ga |-> ga]
  ELSE IF URL \in BadURLs
  THEN [req |-> NoRequest, err |-> "parse", panic |-> "", ga |-> ga]
  ELSE LET keys == {k \in DOMAIN ga.safeHeaders :
                      k # "" /\ ga.safeHeaders[k] # ""}
           h0 == [k \in keys |-> ga.safeHeaders[k]]
           h1 == IF refererURL # "" THEN Store(h0, "Referer", refererURL) ELSE h0
           h2 == IF cookies # "" THEN Store(h1, "Cookie", cookies) ELSE h1
       IN  [ req   |-> [nil |-> FALSE, Method |-> method, URL |-> URL,
                        Header |-> h2],
             err   |-> "",
             panic |-> "",
             ga    |-> ga ]

\* request with every response taken for a success.
request_AnyStatus(v, ga, req, resp) ==
  IF req.nil \/ ga.nil \/ ga.Client.nil
  THEN [NoExchangeResult EXCEPT !.panic = "FATAL"]
  ELSE IF resp.err # ""
  THEN [NoExchangeResult EXCEPT !.err = resp.err]
  ELSE IF resp.readErr # ""
  THEN [NoExchangeResult EXCEPT !.err = resp.readErr]
  ELSE LET u == Ungzip(v, resp.Body)
       IN  [ html |-> IF u.err # "" /\ v # "util.go"
                      THEN String(resp.Body) ELSE u.s,
             redirectURL |-> req.URL,
             err |-> "",
             panic |-> "" ]

\* g.request(req), resp being what g.Client.Do(req) delivers. src/util.go
\* drops Ungzip's error and keeps its string; src/unnamed/part_001 replaces
\* the string by the raw body when Ungzip failed. Redirects are not
\* followed here: the final URL is the request's.
request(v, ga, req, resp) ==
  IF req.nil \/ ga.nil \/ ga.Client.nil
  THEN [NoExchangeResult EXCEPT !.panic = "FATAL"]
  ELSE IF resp.err # ""
  THEN [NoExchangeResult EXCEPT !.err = resp.err]
  ELSE IF resp.StatusCode < 200 \/ resp.StatusCode >= 300
  THEN [NoExchangeResult EXCEPT !.err = "status"]
  ELSE IF resp.readErr # ""
  THEN [NoExchangeResult EXCEPT !.err = resp.readErr]
  ELSE LET u == Ungzip(v, resp.Body)
       IN  [ html |-> IF u.err # "" /\ v # "util.go"
                      THEN String(resp.Body) ELSE u.s,
             redirectURL |-> req.URL,
             err |-> "",
             panic |-> "" ]

\* writer.FormDataContentType() of a multipart body with this boundary.
FormDataContentType(boundary) == "multipart/form-data; boundary=" \o boundary

\* Boundaries multipart.Writer.SetBoundary refuses.
BadBoundaries == {"b@d"}

\* What an instance method does between taking the lock and building the
\* request: the Content-Type it stores in safeHeaders (Load, then Store if
\* absent; the multipart method stores always), or the error it returns.
\* generated is the boundary multipart.NewWriter drew.
Prepare(ga, call, generated) ==
  LET absent == "Content-Type" \notin DOMAIN ga.safeHeaders
      default(ct) ==
        [ga |-> IF absent
                THEN [ga EXCEPT !.safeHeaders = Store(@, "Content-Type", ct)]
                ELSE ga,
         err |-> ""]
  IN  CASE call.method = "GetUtil" -> [ga |-> ga, err |-> ""]
        [] call.method = "PostUtil" ->
             default("application/x-www-form-urlencoded; charset=utf-8")
        [] call.method = "PostBytes" -> default("application/octet-stream")
        [] call.method = "PostXMLUtil" ->
             default("application/xml; charset=utf-8")
        [] call.method = "PostJsonUtil" ->
             default("application/json; charset=utf-8")
        [] call.method = "PostMultipartFormDataUtil" ->
             IF call.boundary \in BadBoundaries
             THEN [ga |-> ga, err |-> "boundary"]
             ELSE [ga |-> [ga EXCEPT !.safeHeaders =
                             Store(@, "Content-Type",
                                   FormDataContentType(
                                     IF call.boundary = "" THEN generated
                                     ELSE call.boundary))],
                   err |-> ""]

\* HTTP method of the request each instance method builds.
HttpMethod(call) == IF call.method = "GetUtil" THEN "GET" ELSE "POST"

\* No instance method has been called.
NoCall ==
  [g |-> 0, method |-> "", URL |-> "", refererURL |-> "", cookies |-> "",
   boundary |-> ""]

\* No instance exists and nobody calls one.
InitNoExchange ==
  /\ variant = "util.go"
  /\ gathers = << >>
  /\ glocker = << >>
  /\ xpc = [c \in Callers |-> "idle"]
  /\ xcall = [c \in Callers |-> NoCall]
  /\ xreq = [c \in Callers |-> NoRequest]
  /\ xresp = [c \in Callers |-> NoResponse]
  /\ xres = [c \in Callers |-> NoExchangeResult]
  /\ xhist = << >>

\* No constructor and no configuration call has been made.
NoOp == [fn |-> "", before |-> InitialRegistry, panic |-> NoPanic]

\* No pool has been built.
NoPoolSnap == [ids |-> << >>, settings |-> << >>, changed |-> FALSE]

\* No instance has been created beside the pool.
NoLater ==
  [ga |-> NilGather, proxyURL |-> "", cfg |-> NilConfig, ver |-> 0,
   afterChange |-> FALSE]

InitNoLifecycle ==
  /\ opLog = NoOp
  /\ poolSnap = NoPoolSnap
  /\ later = NoLater

\* ------------------------------------------------- specifications ----
NoTransports ==
  [transports |-> << >>, transportNoProxy |-> Nil, transportProxyMap |-> << >>]

\* The pool configuration of the concurrent runs: acquisition timeout 1 s,
\* retry interval 500 ms, semaphore on or off.
RunConfig(b) ==
  [defaultPoolConfig EXCEPT !.TimeoutSecond = 1,
                            !.RetryIntervalMs = 500,
                            !.IsUseSemaphore = b]

InitCalls ==
  /\ pc = [c \in Callers |-> "idle"]
  /\ deadline = [c \in Callers |-> 0]
  /\ hasPermit = [c \in Callers |-> FALSE]
  /\ num = [c \in Callers |-> 0]
  /\ poolIndex = [c \in Callers |-> -1]
  /\ visited = [c \in Callers |-> {}]
  /\ wake = [c \in Callers |-> 0]
  /\ res = [c \in Callers |-> NoResult]
  /\ now = 0
  /\ gavePermit = [c \in Callers |-> FALSE]
  /\ touched = [c \in Callers |-> FALSE]
  /\ exchanged = [c \in Callers |-> FALSE]
  /\ relSeen = [c \in Callers |-> FALSE]
  /\ starved = [c \in Callers |-> FALSE]

InitTransportCalls ==
  /\ noProxyLocker = Nil
  /\ proxyMapLocker = Nil
  /\ tpc = [c \in Callers |-> "idle"]
  /\ tkey = [c \in Callers |-> ""]
  /\ tret = [c \in Callers |-> Nil]
  /\ tconc = [c \in Callers |-> FALSE]

\* No constructor call is under examination.
NoArgs ==
  [ctor |-> "", proxyURL |-> "", timeOut |-> 0, num |-> 0, config |-> ZeroPoolConfig]

\* A pool of 1..MaxPoolNum instances has been built, nothing else has run.
Init ==
  /\ \E n \in 1..MaxPoolNum, b \in BOOLEAN :
       LET gp == NewGatherUtilPoolWithConfig(NoTransports, "", 10, n, RunConfig(b))
       IN  /\ unUsed = gp.unUsed
           /\ pool = gp.pool
           /\ sem = gp.sem
           /\ config = gp.config
           /\ locker = [i \in DOMAIN gp.unUsed |-> Nil]
           /\ transports = gp.st.transports
           /\ transportNoProxy = gp.st.transportNoProxy
           /\ transportProxyMap = gp.st.transportProxyMap
  /\ args = NoArgs
  /\ InitRegistry
  /\ InitTransportCalls
  /\ InitCalls
  /\ InitNoExchange
  /\ InitNoLifecycle

CallStep(c) ==
  \/ PoolGet(c)
  \/ PoolGetUtil(c)
  \/ PoolPost(c)
  \/ PoolPostUtil(c)
  \/ SemAcquire(c)
  \/ SemTimeout(c)
  \/ GetPoolIndexLoop(c)
  \/ \E k \in Idx : RangeVisit(c, k)
  \/ Delete(c)
  \/ RangeEnd(c)
  \/ SleepEnd(c)
  \/ Lock(c)
  \/ \E o \in Outcomes : ExchangeEnd(c, o)
  \/ StoreFree(c)
  \/ SemRelease(c)

Next ==
  \/ \E c \in Callers : CallStep(c)
  \/ Tick

Spec == Init /\ [][Next]_vars

NextTimed ==
  \/ \E c \in Callers : CallStep(c)
  \/ TickUrgent

SpecTimed == Init /\ [][NextTimed]_vars

\* ------------------------------------------------- pool properties ----
Holders == {c \in Callers : pc[c] \in HoldingPcs}
Quiet == \A c \in Callers : pc[c] \in RestingPcs

\* C1: with the semaphore enabled, at most N (the pool size) callers are at
\* any moment between a successful acquisition and their release.
C1_AtMostNHolders ==
  config.IsUseSemaphore => Cardinality(Holders) <= Len(pool)

\* C1 happens: every instance is held while another caller waits for a permit.
C1_FullPoolWithWaiter ==
  /\ config.IsUseSemaphore
  /\ Cardinality(Holders) = Len(pool)
  /\ \E c \in Callers : pc[c] = "sem"

\* C2: no two callers hold the same instance index at the same time (the
\* scan marks the index leased atomically with finding it free).
C2_ExclusiveLease ==
  \A c, d \in Holders : c # d => poolIndex[c] # poolIndex[d]

\* C3: with the semaphore disabled (pure polling), the number of callers
\* holding a leased instance never exceeds the pool size.
C3_PollingAtMostNHolders ==
  ~config.IsUseSemaphore => Cardinality(Holders) <= Len(pool)

\* C4: whenever no pool call is in progress, every index is marked free and
\* every permit is back in the channel, whatever the exchanges ended in.
C4_AllReleasedWhenQuiet ==
  Quiet => /\ \A k \in Idx : IsFree(k)
           /\ sem.len = sem.cap
           /\ config.IsUseSemaphore => sem.len = Len(pool)

\* C4 happens: all calls are over, one exchange returned an error and one
\* aborted.
C4_QuietAfterFailures ==
  /\ Quiet
  /\ \E c \in Callers : res[c].err = "exchange error"
  /\ \E c \in Callers : res[c].err = "panic"

\* C5: a call during which every instance stayed leased never leases one and
\* ends by returning the sentinel; a pool call that found no instance, on
\* either path (the permit wait timed out, or the permit was obtained and the
\* scan found no index), returns exactly errNoFreeClinetFind with empty
\* content and empty final URL and has run no exchange; and the sentinel is
\* returned by no other call.
C5_NoFreeResult ==
  \A c \in Callers :
    /\ starved[c] =>
          /\ pc[c] \in AcquiringPcs \cup {"relSem", "done"}
          /\ poolIndex[c] = -1
          /\ pc[c] = "done" => res[c] = NoFreeResult
    /\ (pc[c] \in {"done", "panicked"} /\ poolIndex[c] = -1) =>
          /\ pc[c] = "done"
          /\ res[c] = NoFreeResult
          /\ ~exchanged[c]
    /\ res[c].err = errNoFreeClinetFind =>
          /\ poolIndex[c] = -1
          /\ ~exchanged[c]

\* C5 happens: a call has returned the sentinel after its whole timeout while
\* the other caller kept the only free instance leased.
C5_StarvedCallTimedOut ==
  \E c, d \in Callers :
    /\ pc[c] = "done" /\ starved[c] /\ res[c] = NoFreeResult
    /\ now >= config.TimeoutSecond * 1000
    /\ pc[d] = "exchange"

\* C6: a caller that was waiting when a holder released an instance of the
\* fully leased pool, before the waiter's deadline and with nobody else
\* competing, does not return errNoFreeClinetFind.
C6_WaiterGetsReleasedInstance ==
  \A c \in Callers :
    (pc[c] = "done" /\ relSeen[c]) => res[c].err # errNoFreeClinetFind

\* C7: an acquisition that ends by timeout has changed no flag of unUsed,
\* and has returned a permit exactly if it had taken one.
C7_TimeoutReleasesOnlyWhatItHeld ==
  \A c \in Callers :
    (pc[c] = "done" /\ res[c].err = errNoFreeClinetFind) =>
       /\ ~touched[c]
       /\ gavePermit[c] = hasPermit[c]

\* C7 happens: a call that had its permit timed out in the scan and returned.
C7_ScanTimedOutWithPermit ==
  \E c \in Callers :
    /\ pc[c] = "done"
    /\ res[c].err = errNoFreeClinetFind
    /\ hasPermit[c]
    /\ gavePermit[c]

\* ------------------------------------------- constructors under test ----
\* Arguments handed to the pool constructors: sizes below, inside and above
\* the limits, and configurations with every field below, inside and above
\* its range.
NumInputs == -1..MaxNumInput

ConfigInputs ==
  [ MaxIdleConns             : {0, 7},
    MaxIdleConnsPerHostRatio : {-100, 0, 1, 500, 1000, 1001},
    TimeoutSecond            : {-1, 0, 1, 10},
    RetryIntervalMs          : {9, 10, 200, 1000, 1001},
    MaxPoolSize              : -1..MaxPoolSizeInput,
    IsUseSemaphore           : BOOLEAN ]

InitNew ==
  /\ transports = << >>
  /\ transportNoProxy = Nil
  /\ transportProxyMap = << >>
  /\ unUsed = << >>
  /\ pool = << >>
  /\ sem = NilChan
  /\ config = ZeroPoolConfig
  /\ locker = << >>
  /\ args \in [ ctor     : {""},
                proxyURL : {"", "proxyA"},
                timeOut  : {10},
                num      : NumInputs,
                config   : ConfigInputs ]
  /\ InitRegistry
  /\ InitTransportCalls
  /\ InitCalls
  /\ InitNoExchange
  /\ InitNoLifecycle

\* The pool gp becomes the state.
Install(gp) ==
  /\ unUsed' = gp.unUsed
  /\ pool' = gp.pool
  /\ sem' = gp.sem
  /\ config' = gp.config
  /\ locker' = [i \in DOMAIN gp.unUsed |-> Nil]
  /\ transports' = gp.st.transports
  /\ transportNoProxy' = gp.st.transportNoProxy
  /\ transportProxyMap' = gp.st.transportProxyMap

\* A call NewGatherUtilPoolWithConfig(headers, proxyURL, timeOut, _, num, config).
CallNewGatherUtilPoolWithConfig ==
  /\ args.ctor = ""
  /\ Install(NewGatherUtilPoolWithConfig(TransportState, args.proxyURL,
                                         args.timeOut, args.num, args.config))
  /\ args' = [args EXCEPT !.ctor = "NewGatherUtilPoolWithConfig"]
  /\ UNCHANGED <<noProxyLocker, proxyMapLocker, tpc, tkey, tret, tconc, regvars, addvars,
                 callvars, histvars>>

\* A call NewGatherUtilPool(headers, proxyURL, timeOut, _, num).
CallNewGatherUtilPool ==
  /\ args.ctor = ""
  /\ Install(NewGatherUtilPool(TransportState, args.proxyURL, args.timeOut, args.num))
  /\ args' = [args EXCEPT !.ctor = "NewGatherUtilPool"]
  /\ UNCHANGED <<noProxyLocker, proxyMapLocker, tpc, tkey, tret, tconc, regvars, addvars,
                 callvars, histvars>>

NextNew ==
  \/ CallNewGatherUtilPoolWithConfig
  \/ CallNewGatherUtilPool

SpecNew == InitNew /\ [][NextNew]_vars

\* C8: construction clamps the requested size into 1..MaxPoolSize (num <= 0
\* becomes 1, num > MaxPoolSize becomes MaxPoolSize, anything else is kept)
\* and the pool has exactly that many initialized instances, each index
\* marked free.
C8_ClampedSizeAndInstances ==
  args.ctor # "" =>
    LET size == IF args.num <= 0 THEN 1
                ELSE IF args.num > config.MaxPoolSize THEN config.MaxPoolSize
                ELSE args.num
    IN  /\ config.MaxPoolSize >= 1
        /\ Len(pool) = size
        /\ Len(pool) \in 1..config.MaxPoolSize
        /\ \A i \in 1..Len(pool) : ~pool[i].nil /\ ~pool[i].Client.nil
        /\ DOMAIN unUsed = 0..(size - 1)
        /\ \A k \in DOMAIN unUsed : unUsed[k]

\* C8 happens: a size above a MaxPoolSize of 2 or more was asked for.
C8_ClampedFromAbove ==
  /\ args.ctor # ""
  /\ config.MaxPoolSize >= 2
  /\ args.num > config.MaxPoolSize
  /\ Len(pool) = config.MaxPoolSize

\* C9: NewGatherUtilPoolWithConfig stores the configuration with
\* MaxIdleConnsPerHostRatio outside (0,1] replaced by 0.2, TimeoutSecond <= 0
\* by 30, RetryIntervalMs outside [10,1000] by 100, MaxPoolSize <= 0 by 100,
\* and every in-range value as given.
C9_ConfigAutoCorrected ==
  args.ctor = "NewGatherUtilPoolWithConfig" =>
    LET in == args.config
    IN  /\ config.MaxIdleConnsPerHostRatio =
             (IF in.MaxIdleConnsPerHostRatio > 0 /\ in.MaxIdleConnsPerHostRatio <= 1000
              THEN in.MaxIdleConnsPerHostRatio ELSE 200)
        /\ config.TimeoutSecond =
             (IF in.TimeoutSecond > 0 THEN in.TimeoutSecond ELSE 30)
        /\ config.RetryIntervalMs =
             (IF in.RetryIntervalMs >= 10 /\ in.RetryIntervalMs <= 1000
              THEN in.RetryIntervalMs ELSE 100)
        /\ config.MaxPoolSize =
             (IF in.MaxPoolSize > 0 THEN in.MaxPoolSize ELSE 100)
        /\ config.MaxIdleConns = in.MaxIdleConns
        /\ config.IsUseSemaphore = in.IsUseSemaphore

\* C9 happens: a configuration with all four checked fields out of range
\* (two of them above their range) was handed in and a pool came back.
C9_AllFieldsCorrected ==
  /\ args.ctor = "NewGatherUtilPoolWithConfig"
  /\ args.config.MaxIdleConnsPerHostRatio > 1000
  /\ args.config.TimeoutSecond <= 0
  /\ args.config.RetryIntervalMs > 1000
  /\ args.config.MaxPoolSize <= 0
  /\ Len(pool) >= 1

\* ------------------------------------- concurrent getHttpTransport ----
\* Positions of a getHttpTransport call.
\*   lock     xLocker.Lock()
\*   check    the cache look-up
\*   create   the miss branch
\*   unlock   deferred xLocker.Unlock()
\*   returned the call is over, tret is its result
TInFlight == {"lock", "check", "create", "unlock"}

\* No pool exists while the cache alone is exercised.
InitTransport ==
  /\ transports = << >>
  /\ transportNoProxy = Nil
  /\ transportProxyMap = << >>
  /\ unUsed = << >>
  /\ pool = << >>
  /\ sem = NilChan
  /\ config = ZeroPoolConfig
  /\ locker = << >>
  /\ args = NoArgs
  /\ InitRegistry
  /\ InitTransportCalls
  /\ InitCalls
  /\ InitNoExchange
  /\ InitNoLifecycle

\* A goroutine calls getHttpTransport(k).
TCall(c, k) ==
  /\ tpc[c] \in {"idle", "returned"}
  /\ tpc' = [tpc EXCEPT ![c] = "lock"]
  /\ tkey' = [tkey EXCEPT ![c] = k]
  /\ tret' = [tret EXCEPT ![c] = Nil]
  /\ tconc' = [d \in Callers |->
                 IF d = c
                 THEN \E e \in Callers \ {c} : tpc[e] \in TInFlight /\ tkey[e] = k
                 ELSE tconc[d] \/ (tpc[d] \in TInFlight /\ tkey[d] = k)]
  /\ UNCHANGED <<transports, transportNoProxy, transportProxyMap,
                 noProxyLocker, proxyMapLocker>>
  /\ UNCHANGED <<regvars, addvars, poolvars, args, callvars, histvars>>

\* Lock() that does not wait for the holder.
TLock_NoMutex(c) ==
  /\ tpc[c] = "lock"
  /\ IF tkey[c] = ""
     THEN noProxyLocker' = c /\ UNCHANGED proxyMapLocker
     ELSE proxyMapLocker' = c /\ UNCHANGED noProxyLocker
  /\ tpc' = [tpc EXCEPT ![c] = "check"]
  /\ UNCHANGED <<transports, transportNoProxy, transportProxyMap, tkey, tret, tconc>>
  /\ UNCHANGED <<regvars, addvars, poolvars, args, callvars, histvars>>

\* noProxyLocker.Lock() for the direct connection, proxyMapLocker.Lock()
\* for a proxy.
TLock(c) ==
  /\ tpc[c] = "lock"
  /\ IF tkey[c] = ""
     THEN noProxyLocker = Nil /\ noProxyLocker' = c /\ UNCHANGED proxyMapLocker
     ELSE proxyMapLocker = Nil /\ proxyMapLocker' = c /\ UNCHANGED noProxyLocker
  /\ tpc' = [tpc EXCEPT ![c] = "check"]
  /\ UNCHANGED <<transports, transportNoProxy, transportProxyMap, tkey, tret, tconc>>
  /\ UNCHANGED <<regvars, addvars, poolvars, args, callvars, histvars>>

\* "if transportNoProxy == nil" / "if t, ok := transportProxyMap[proxyURL]; ok".
TCheck(c) ==
  /\ tpc[c] = "check"
  /\ LET t == CacheLookup(TransportState, tkey[c])
     IN  IF t # Nil
         THEN /\ tret' = [tret EXCEPT ![c] = t]
              /\ tpc' = [tpc EXCEPT ![c] = "unlock"]
         ELSE /\ tpc' = [tpc EXCEPT ![c] = "create"]
              /\ UNCHANGED tret
  /\ UNCHANGED <<transports, transportNoProxy, transportProxyMap,
                 noProxyLocker, proxyMapLocker, tkey, tconc>>
  /\ UNCHANGED <<regvars, addvars, poolvars, args, callvars, histvars>>

\* The miss branch: build, size, store, return.
TCreate(c) ==
  /\ tpc[c] = "create"
  /\ LET r == CacheCreate(TransportState, tkey[c])
     IN  /\ transports' = r.st.transports
         /\ transportNoProxy' = r.st.transportNoProxy
         /\ transportProxyMap' = r.st.transportProxyMap
         /\ tret' = [tret EXCEPT ![c] = r.ret]
  /\ tpc' = [tpc EXCEPT ![c] = "unlock"]
  /\ UNCHANGED <<noProxyLocker, proxyMapLocker, tkey, tconc>>
  /\ UNCHANGED <<regvars, addvars, poolvars, args, callvars, histvars>>

\* The deferred Unlock(); the call returns tret.
TUnlock(c) ==
  /\ tpc[c] = "unlock"
  /\ IF tkey[c] = ""
     THEN noProxyLocker' = Nil /\ UNCHANGED proxyMapLocker
     ELSE proxyMapLocker' = Nil /\ UNCHANGED noProxyLocker
  /\ tpc' = [tpc EXCEPT ![c] = "returned"]
  /\ UNCHANGED <<transports, transportNoProxy, transportProxyMap, tkey, tret, tconc>>
  /\ UNCHANGED <<regvars, addvars, poolvars, args, callvars, histvars>>

NextTransport ==
  \E c \in Callers :
    \/ \E k \in ProxyKeys : TCall(c, k)
    \/ TLock(c)
    \/ TCheck(c)
    \/ TCreate(c)
    \/ TUnlock(c)

SpecTransport == InitTransport /\ [][NextTransport]_vars

CfgInputs ==
  {NilConfig} \cup
  [ nil                   : {FALSE},
    MaxIdleConns          : {0, 100},
    MaxIdleConnsPerHost   : {-1, 50},
    IdleConnTimeout       : {0, 90000},
    TLSInsecureSkipVerify : {TRUE},
    DialTimeout           : {-1, 0},
    TLSHandshakeTimeout   : {-1, 5000},
    ExpectContinueTimeout : {-1, 1000},
    ResponseHeaderTimeout : {-1, 0},
    DisableCompression    : {FALSE},
    ForceAttemptHTTP2     : {TRUE},
    TCPLinger             : {-1, 0},
    KeepAlive             : {0, 30000} ]

\* Total timeouts handed to SetGatherConfigByClientTimeout: -10 ms, 0, every
\* hundredth of a second up to MaxTotalCentis, 30 s and 10 min.
TotalTimeouts ==
  {10 * k : k \in -1..MaxTotalCentis} \cup {30000, 600000}

CfgCallInputs ==
  {[NoCfgCall EXCEPT !.fn = "SetGatherConfig", !.cfg = c] : c \in CfgInputs}
  \cup
  {[NoCfgCall EXCEPT !.fn = "SetGatherConfigByClientTimeout",
                     !.totalTimeout = t, !.isSlowConn = b, !.tlsInsecure = i] :
      t \in TotalTimeouts, b \in BOOLEAN, i \in BOOLEAN}
  \cup
  {[NoCfgCall EXCEPT !.fn = f] : f \in {"UseSlowConnConfig", "UseFastConnConfig"}}

\* The package is loaded; the fast profile may have been chosen since and a
\* direct-connection transport may have been built; one configuration call
\* is about to be made.
InitConfig ==
  /\ \E fast \in BOOLEAN, cached \in BOOLEAN, in \in CfgCallInputs :
       LET st0 == IF fast THEN UseFastConnConfig(InitialRegistry).st
                  ELSE InitialRegistry
           st1 == IF cached THEN getHttpTransportByConfig(st0, "").st ELSE st0
       IN  /\ globalConfig = st1.globalConfig
           /\ cfgVersion = st1.cfgVersion
           /\ transports = st1.transports
           /\ transportNoProxy = st1.transportNoProxy
           /\ returnedVersion = st1.cfgVersion
           /\ cfgCall = [in EXCEPT !.old = st1]
  /\ transportProxyMap = << >>
  /\ hasPass = NoHasPass
  /\ configLocker = Nil
  /\ transportLocker = Nil
  /\ gpc = [c \in Callers |-> "idle"]
  /\ gfn = [c \in Callers |-> ""]
  /\ garg = [c \in Callers |-> NoRegistryArg]
  /\ gsnap = [c \in Callers |-> NoSnapshot]
  /\ gret = [c \in Callers |-> Nil]
  /\ gstale = [c \in Callers |-> FALSE]
  /\ unUsed = << >>
  /\ pool = << >>
  /\ sem = NilChan
  /\ config = ZeroPoolConfig
  /\ locker = << >>
  /\ args = NoArgs
  /\ InitTransportCalls
  /\ InitCalls
  /\ InitNoExchange
  /\ InitNoLifecycle

\* The call under examination ended in r: the registry it left becomes the
\* state.
Conclude(r) ==
  /\ globalConfig' = r.st.globalConfig
  /\ cfgVersion' = r.st.cfgVersion
  /\ transports' = r.st.transports
  /\ transportNoProxy' = r.st.transportNoProxy
  /\ returnedVersion' = r.st.cfgVersion
  /\ cfgCall' = [cfgCall EXCEPT !.over = TRUE, !.panic = r.panic]
  /\ UNCHANGED <<transportProxyMap, noProxyLocker, proxyMapLocker, tpc, tkey,
                 tret, tconc, configLocker, transportLocker, gpc, gfn, garg,
                 gsnap, gret, gstale, hasPass,
                 addvars>>
  /\ UNCHANGED <<poolvars, args, callvars, histvars>>

\* A call SetGatherConfig(cfg).
CallSetGatherConfig ==
  /\ cfgCall.fn = "SetGatherConfig" /\ ~cfgCall.over
  /\ Conclude(SetGatherConfig(RegistryState, cfgCall.cfg))

\* A call SetGatherConfigByClientTimeout(totalTimeout, isSlowConn, tlsInsecure).
CallSetGatherConfigByClientTimeout ==
  /\ cfgCall.fn = "SetGatherConfigByClientTimeout" /\ ~cfgCall.over
  /\ Conclude(SetGatherConfigByClientTimeout(RegistryState, cfgCall.totalTimeout,
                                             cfgCall.isSlowConn, cfgCall.tlsInsecure))

\* A call UseSlowConnConfig().
CallUseSlowConnConfig ==
  /\ cfgCall.fn = "UseSlowConnConfig" /\ ~cfgCall.over
  /\ Conclude(UseSlowConnConfig(RegistryState))

\* A call UseFastConnConfig().
CallUseFastConnConfig ==
  /\ cfgCall.fn = "UseFastConnConfig" /\ ~cfgCall.over
  /\ Conclude(UseFastConnConfig(RegistryState))

NextConfig ==
  \/ CallSetGatherConfig
  \/ CallSetGatherConfigByClientTimeout
  \/ CallUseSlowConnConfig
  \/ CallUseFastConnConfig

SpecConfig == InitConfig /\ [][NextConfig]_vars

\* C11: SetGatherConfig with a nil configuration or one violating any rule
\* (MaxIdleConns <= 0, MaxIdleConnsPerHost <= 0, IdleConnTimeout <= 0,
\* KeepAlive <= 0, a phase timeout < 0, TCPLinger < 0) is rejected and
\* changes nothing: the active configuration and the cached no-proxy
\* transport are what they were before the call.
C11_InvalidConfigRejectedInFull ==
  LET cfg == cfgCall.cfg
      invalid == \/ cfg.nil
                 \/ cfg.MaxIdleConns <= 0
                 \/ cfg.MaxIdleConnsPerHost <= 0
                 \/ cfg.IdleConnTimeout <= 0
                 \/ cfg.KeepAlive <= 0
                 \/ cfg.DialTimeout < 0
                 \/ cfg.TLSHandshakeTimeout < 0
                 \/ cfg.ExpectContinueTimeout < 0
                 \/ cfg.ResponseHeaderTimeout < 0
                 \/ cfg.TCPLinger < 0
  IN  (cfgCall.fn = "SetGatherConfig" /\ cfgCall.over /\ invalid) =>
        /\ cfgCall.panic # NoPanic
        /\ globalConfig = cfgCall.old.globalConfig
        /\ cfgVersion = cfgCall.old.cfgVersion
        /\ transportNoProxy = cfgCall.old.transportNoProxy
        /\ transports = cfgCall.old.transports

\* C11 happens: a configuration with a negative dial timeout was refused
\* while a no-proxy transport was cached, and the transport is still cached.
C11_RejectedWithCachedTransport ==
  /\ cfgCall.fn = "SetGatherConfig" /\ cfgCall.over
  /\ ~cfgCall.cfg.nil /\ cfgCall.cfg.DialTimeout < 0
  /\ cfgCall.old.transportNoProxy # Nil
  /\ transportNoProxy = cfgCall.old.transportNoProxy

\* C12: when a non-nil configuration violates several rules at once, the
\* failure SetGatherConfig reports names every violated field and no other.
C12_EveryViolatedFieldReported ==
  LET cfg == cfgCall.cfg
      violated ==
        {f \in {"MaxIdleConns", "MaxIdleConnsPerHost", "IdleConnTimeout",
                "DialTimeout", "TLSHandshakeTimeout", "ExpectContinueTimeout",
                "ResponseHeaderTimeout", "TCPLinger", "KeepAlive"} :
           \/ f = "MaxIdleConns" /\ cfg.MaxIdleConns <= 0
           \/ f = "MaxIdleConnsPerHost" /\ cfg.MaxIdleConnsPerHost <= 0
           \/ f = "IdleConnTimeout" /\ cfg.IdleConnTimeout <= 0
           \/ f = "DialTimeout" /\ cfg.DialTimeout < 0
           \/ f = "TLSHandshakeTimeout" /\ cfg.TLSHandshakeTimeout < 0
           \/ f = "ExpectContinueTimeout" /\ cfg.ExpectContinueTimeout < 0
           \/ f = "ResponseHeaderTimeout" /\ cfg.ResponseHeaderTimeout < 0
           \/ f = "TCPLinger" /\ cfg.TCPLinger < 0
           \/ f = "KeepAlive" /\ cfg.KeepAlive <= 0}
      reported == {cfgCall.panic.fields[i] : i \in 1..Len(cfgCall.panic.fields)}
  IN  (cfgCall.fn = "SetGatherConfig" /\ cfgCall.over /\ ~cfg.nil) =>
        /\ reported = violated
        /\ Len(cfgCall.panic.fields) = Cardinality(violated)

\* C12 happens: a configuration violating three rules was refused with three
\* fields in the report.
C12_ThreeFieldsReported ==
  /\ cfgCall.fn = "SetGatherConfig" /\ cfgCall.over
  /\ cfgCall.cfg.MaxIdleConns <= 0
  /\ cfgCall.cfg.DialTimeout < 0
  /\ cfgCall.cfg.KeepAlive <= 0
  /\ Len(cfgCall.panic.fields) = 3

\* C13: a configuration call returns normally, whatever it was given; a
\* validation failure is handed back as a value and does not abort the
\* caller.
C13_ValidationFailureReturned ==
  cfgCall.over => cfgCall.panic = NoPanic
\* C16: for every total timeout T > 0 the fast profile gets
\* dial = max(T/5, 1 s), TLS handshake = max(T/5, 1 s),
\* expect-continue = max(T/10, 0.5 s), response-header = max(2T/5, 2 s);
\* in both profiles dial, TLS handshake and expect-continue are at least
\* 1 s, 1 s and 0.5 s.
C16_PhaseTimeoutsFloored ==
  LET T == cfgCall.totalTimeout
  IN  (cfgCall.fn = "SetGatherConfigByClientTimeout" /\ cfgCall.over /\ T > 0) =>
        /\ cfgCall.panic = NoPanic
        /\ globalConfig.DialTimeout >= 1000
        /\ globalConfig.TLSHandshakeTimeout >= 1000
        /\ globalConfig.ExpectContinueTimeout >= 500
        /\ ~cfgCall.isSlowConn =>
             /\ globalConfig.DialTimeout = Max(T \div 5, 1000)
             /\ globalConfig.TLSHandshakeTimeout = Max(T \div 5, 1000)
             /\ globalConfig.ExpectContinueTimeout = Max(T \div 10, 500)
             /\ globalConfig.ResponseHeaderTimeout = Max((2 * T) \div 5, 2000)

\* C16 happens: a fast derivation for T = 10 ms, where every phase is
\* raised to its floor, and one for T = 6 s, where the dial share of 1.2 s
\* and the response-header share of 2.4 s exceed theirs.
C16_FlooredDerivation ==
  /\ cfgCall.fn = "SetGatherConfigByClientTimeout" /\ cfgCall.over
  /\ ~cfgCall.isSlowConn
  /\ cfgCall.totalTimeout = 10
  /\ globalConfig.DialTimeout = 1000
  /\ globalConfig.ResponseHeaderTimeout = 2000

\* C17: for every total timeout T > 0 the slow profile gets
\* response-header timeout 0.
C17_SlowResponseHeaderUnbounded ==
  (/\ cfgCall.fn = "SetGatherConfigByClientTimeout" /\ cfgCall.over
   /\ cfgCall.totalTimeout > 0 /\ cfgCall.isSlowConn) =>
     /\ cfgCall.panic = NoPanic
     /\ globalConfig.ResponseHeaderTimeout = 0

\* C17 happens: a slow derivation for T = 6 s, whose 40 % share would be
\* 2.4 s, installed with response-header timeout 0.
C17_SlowDerivationInstalled ==
  /\ cfgCall.fn = "SetGatherConfigByClientTimeout" /\ cfgCall.over
  /\ cfgCall.isSlowConn /\ cfgCall.totalTimeout = 6000
  /\ cfgCall.old.globalConfig.ResponseHeaderTimeout # 0
  /\ globalConfig.ResponseHeaderTimeout = 0

\* C18: for every total timeout T > 0 the four derived phase timeouts sum
\* to at most T.
C18_PhaseSumWithinTotal ==
  (/\ cfgCall.fn = "SetGatherConfigByClientTimeout" /\ cfgCall.over
   /\ cfgCall.totalTimeout > 0) =>
     globalConfig.DialTimeout + globalConfig.TLSHandshakeTimeout
       + globalConfig.ExpectContinueTimeout
       + globalConfig.ResponseHeaderTimeout <= cfgCall.totalTimeout

\* C19: SetGatherConfigByClientTimeout with totalTimeout <= 0 is refused and
\* changes nothing: no configuration derived from a default total is
\* installed and the cached no-proxy transport is kept.
C19_NonPositiveTotalRejected ==
  (/\ cfgCall.fn = "SetGatherConfigByClientTimeout" /\ cfgCall.over
   /\ cfgCall.totalTimeout <= 0) =>
     /\ cfgCall.panic # NoPanic
     /\ globalConfig = cfgCall.old.globalConfig
     /\ cfgVersion = cfgCall.old.cfgVersion
     /\ transportNoProxy = cfgCall.old.transportNoProxy
     /\ transports = cfgCall.old.transports

\* C19 happens: a call with total 0 was refused while a no-proxy transport
\* was cached.
C19_ZeroTotalRefused ==
  /\ cfgCall.fn = "SetGatherConfigByClientTimeout" /\ cfgCall.over
  /\ cfgCall.totalTimeout = 0
  /\ cfgCall.old.transportNoProxy # Nil
  /\ transportNoProxy # Nil

\* C20: UseSlowConnConfig leaves what SetGatherConfigByClientTimeout(10 min,
\* slow) leaves: response-header timeout 0, compression enabled, HTTP/2 not
\* forced, linger 1. UseFastConnConfig leaves what
\* SetGatherConfigByClientTimeout(30 s, fast) leaves: a response-header
\* timeout above 0, compression disabled, HTTP/2 forced, linger 0.
C20_ProfilesAreDerivations ==
  /\ (cfgCall.fn = "UseSlowConnConfig" /\ cfgCall.over) =>
       /\ cfgCall.panic = NoPanic
       /\ RegistryState =
            SetGatherConfigByClientTimeout(cfgCall.old, 600000, TRUE, TRUE).st
       /\ globalConfig.ResponseHeaderTimeout = 0
       /\ ~globalConfig.DisableCompression
       /\ ~globalConfig.ForceAttemptHTTP2
       /\ globalConfig.TCPLinger = 1
  /\ (cfgCall.fn = "UseFastConnConfig" /\ cfgCall.over) =>
       /\ cfgCall.panic = NoPanic
       /\ RegistryState =
            SetGatherConfigByClientTimeout(cfgCall.old, 30000, FALSE, TRUE).st
       /\ globalConfig.ResponseHeaderTimeout > 0
       /\ globalConfig.DisableCompression
       /\ globalConfig.ForceAttemptHTTP2
       /\ globalConfig.TCPLinger = 0

\* C20 happens: UseFastConnConfig was called while the slow profile was
\* active and left a 12 s response-header timeout.
C20_FastAfterSlow ==
  /\ cfgCall.fn = "UseFastConnConfig" /\ cfgCall.over
  /\ cfgCall.old.globalConfig.TCPLinger = 1
  /\ globalConfig.ResponseHeaderTimeout = 12000
\* ------------------------- authenticated-proxy constructors under test ----
ProxyAddrInputs ==
  [ scheme : {"", "http://", "https://"},
    rest   : {"104.207.139.207:8080", "proxy.local:3128", "%zz:8080", "[::1"} ]

HasPassInputs ==
  {[NoHasPass EXCEPT !.fn = "NewGatherUtilHasPass", !.proxyURL = a,
                     !.user = u, !.pass = w, !.timeOut = t] :
      a \in ProxyAddrInputs, u \in {"", "admin"}, w \in {"", "123456"},
      t \in {-1, 0, 60}}
  \cup
  {[NoHasPass EXCEPT !.fn = "NewGatherProxyHasPassUtil", !.proxyURL = a,
                     !.user = u, !.pass = w] :
      a \in ProxyAddrInputs, u \in {"", "admin"}, w \in {"", "123456"}}

\* Nothing built yet; one constructor call is about to be made.
InitHasPass ==
  /\ transports = << >>
  /\ transportNoProxy = Nil
  /\ transportProxyMap = << >>
  /\ unUsed = << >>
  /\ pool = << >>
  /\ sem = NilChan
  /\ config = ZeroPoolConfig
  /\ locker = << >>
  /\ args = NoArgs
  /\ globalConfig = InitialRegistry.globalConfig
  /\ cfgVersion = InitialRegistry.cfgVersion
  /\ cfgCall = NoCfgCall
  /\ hasPass \in HasPassInputs
  /\ InitRegistryCalls
  /\ InitTransportCalls
  /\ InitCalls
  /\ InitNoExchange
  /\ InitNoLifecycle

\* The constructor returned r.
ConstructorReturned(r) ==
  /\ transports' = r.transports
  /\ hasPass' = [hasPass EXCEPT !.over = TRUE, !.ga = r.ga, !.logs = r.logs]
  /\ UNCHANGED <<transportNoProxy, transportProxyMap, noProxyLocker,
                 proxyMapLocker, tpc, tkey, tret, tconc, globalConfig,
                 configLocker, transportLocker, cfgVersion, returnedVersion,
                 cfgCall, gpc, gfn, garg, gsnap, gret, gstale,
                 addvars>>
  /\ UNCHANGED <<poolvars, args, callvars, histvars>>

\* A call NewGatherUtilHasPass(headers, proxyURL, user, pass, timeOut, ...).
CallNewGatherUtilHasPass ==
  /\ hasPass.fn = "NewGatherUtilHasPass" /\ ~hasPass.over
  /\ ConstructorReturned(NewGatherUtilHasPass(transports, hasPass.proxyURL, hasPass.user,
                                   hasPass.pass, hasPass.timeOut))

\* A call NewGatherProxyHasPassUtil(headers, proxyURL, user, pass, ...).
CallNewGatherProxyHasPassUtil ==
  /\ hasPass.fn = "NewGatherProxyHasPassUtil" /\ ~hasPass.over
  /\ ConstructorReturned(NewGatherProxyHasPassUtil(transports, hasPass.proxyURL,
                                        hasPass.user, hasPass.pass))

NextHasPass ==
  \/ CallNewGatherUtilHasPass
  \/ CallNewGatherProxyHasPassUtil

SpecHasPass == InitHasPass /\ [][NextHasPass]_vars

\* C14: an authenticated-proxy constructor either hands back no instance
\* (the only failure signal its result type can carry) or an instance whose
\* client goes through the requested proxy; in particular for an address
\* that cannot be parsed.
C14_ParseFailureReported ==
  hasPass.over =>
    \/ hasPass.ga.nil
    \/ /\ hasPass.ga.Client.Transport # Nil
       /\ transports[hasPass.ga.Client.Transport].Proxy.Host = hasPass.proxyURL.rest
\* ----------------------------- concurrent calls of the registry ----
\* The package-level state the registry calls leave alone.
cachevars == <<transportProxyMap, noProxyLocker, proxyMapLocker, tpc, tkey,
               tret, tconc>>

othervars == <<cachevars, cfgCall, hasPass, poolvars, args, callvars, histvars,
               addvars>>

\* Configurations the concurrent callers install: the two profiles, and one
\* that fails validation.
RegistryConfigs ==
  { DeriveConfig(600000, TRUE, TRUE),
    DeriveConfig(30000, FALSE, TRUE),
    [DeriveConfig(30000, FALSE, TRUE) EXCEPT !.DialTimeout = -1] }

\* A panic of any goroutine ends the process.
Running == \A c \in Callers : gpc[c] # "panicked"

\* Package loaded, possibly a direct-connection transport already built.
InitConcurrentRegistry ==
  /\ \E cached \in BOOLEAN :
       LET st == IF cached THEN getHttpTransportByConfig(InitialRegistry, "").st
                 ELSE InitialRegistry
       IN  /\ globalConfig = st.globalConfig
           /\ cfgVersion = st.cfgVersion
           /\ transports = st.transports
           /\ transportNoProxy = st.transportNoProxy
  /\ transportProxyMap = << >>
  /\ cfgCall = NoCfgCall
  /\ hasPass = NoHasPass
  /\ unUsed = << >>
  /\ pool = << >>
  /\ sem = NilChan
  /\ config = ZeroPoolConfig
  /\ locker = << >>
  /\ args = NoArgs
  /\ InitRegistryCalls
  /\ InitTransportCalls
  /\ InitCalls
  /\ InitNoExchange
  /\ InitNoLifecycle

\* A goroutine calls SetGatherConfig(cfg).
SCall(c) ==
  /\ Running /\ gpc[c] = "idle"
  /\ cfgVersion - InitialRegistry.cfgVersion < MaxConfigChanges
  /\ \E cfg \in RegistryConfigs :
       garg' = [garg EXCEPT ![c] = [cfg |-> cfg, proxyURL |-> ""]]
  /\ gfn' = [gfn EXCEPT ![c] = "SetGatherConfig"]
  /\ gpc' = [gpc EXCEPT ![c] = "validate"]
  /\ UNCHANGED <<transports, transportNoProxy, globalConfig, configLocker,
                 transportLocker, cfgVersion, returnedVersion, gsnap, gret,
                 gstale, othervars>>

\* The nil check and the nine field checks; panic if any failed.
SValidate(c) ==
  /\ Running /\ gpc[c] = "validate"
  /\ gpc' = [gpc EXCEPT ![c] =
               IF garg[c].cfg.nil \/ errMsgs(garg[c].cfg) # << >>
               THEN "panicked" ELSE "lockConfig"]
  /\ UNCHANGED <<transports, transportNoProxy, globalConfig, configLocker,
                 transportLocker, cfgVersion, returnedVersion, gfn, garg,
                 gsnap, gret, gstale, othervars>>

\* configLocker.Lock(); readers hold the lock only within GReadConfig.
SLockConfig(c) ==
  /\ Running /\ gpc[c] = "lockConfig"
  /\ configLocker = Nil
  /\ configLocker' = c
  /\ gpc' = [gpc EXCEPT ![c] = "lockTransport"]
  /\ UNCHANGED <<transports, transportNoProxy, globalConfig, transportLocker,
                 cfgVersion, returnedVersion, gfn, garg, gsnap, gret, gstale,
                 othervars>>

\* transportLocker.Lock(), in SetGatherConfig.
SLockTransport(c) ==
  /\ Running /\ gpc[c] = "lockTransport" /\ gfn[c] = "SetGatherConfig"
  /\ transportLocker = Nil
  /\ transportLocker' = c
  /\ gpc' = [gpc EXCEPT ![c] = "reset"]
  /\ UNCHANGED <<transports, transportNoProxy, globalConfig, configLocker,
                 cfgVersion, returnedVersion, gfn, garg, gsnap, gret, gstale,
                 othervars>>

\* transportNoProxy = nil; transportLocker.Unlock()
SReset(c) ==
  /\ Running /\ gpc[c] = "reset"
  /\ transportNoProxy' = Nil
  /\ transportLocker' = Nil
  /\ gpc' = [gpc EXCEPT ![c] = "store"]
  /\ UNCHANGED <<transports, globalConfig, configLocker, cfgVersion,
                 returnedVersion, gfn, garg, gsnap, gret, gstale, othervars>>

\* globalConfig = cfg
SStore(c) ==
  /\ Running /\ gpc[c] = "store"
  /\ globalConfig' = garg[c].cfg
  /\ cfgVersion' = cfgVersion + 1
  /\ gpc' = [gpc EXCEPT ![c] = "unlockConfig"]
  /\ UNCHANGED <<transports, transportNoProxy, configLocker, transportLocker,
                 returnedVersion, gfn, garg, gsnap, gret, gstale, othervars>>

\* The deferred configLocker.Unlock(), and the return, after which the
\* locals of the call are gone.
SReturn(c) ==
  /\ Running /\ gpc[c] = "unlockConfig"
  /\ configLocker' = Nil
  /\ returnedVersion' = cfgVersion
  /\ gpc' = [gpc EXCEPT ![c] = "idle"]
  /\ gfn' = [gfn EXCEPT ![c] = ""]
  /\ garg' = [garg EXCEPT ![c] = NoRegistryArg]
  /\ UNCHANGED <<transports, transportNoProxy, globalConfig, transportLocker,
                 cfgVersion, gsnap, gret, gstale, othervars>>

\* A goroutine calls getHttpTransport(proxyURL).
GCall(c) ==
  /\ Running /\ gpc[c] = "idle"
  /\ Len(transports) < MaxTransports
  /\ \E proxyURL \in ProxyKeys :
       garg' = [garg EXCEPT ![c] = [cfg |-> NilConfig, proxyURL |-> proxyURL]]
  /\ gfn' = [gfn EXCEPT ![c] = "getHttpTransport"]
  /\ gpc' = [gpc EXCEPT ![c] = "readConfig"]
  /\ UNCHANGED <<transports, transportNoProxy, globalConfig, configLocker,
                 transportLocker, cfgVersion, returnedVersion, gsnap, gret,
                 gstale, othervars>>

\* configLocker.RLock(); cfg := globalConfig; configLocker.RUnlock()
GReadConfig(c) ==
  /\ Running /\ gpc[c] = "readConfig"
  /\ configLocker = Nil
  /\ gsnap' = [gsnap EXCEPT ![c] = [cfg |-> globalConfig, ver |-> cfgVersion]]
  /\ gpc' = [gpc EXCEPT ![c] = "lockTransport"]
  /\ UNCHANGED <<transports, transportNoProxy, globalConfig, configLocker,
                 transportLocker, cfgVersion, returnedVersion, gfn, garg,
                 gret, gstale, othervars>>

\* transportLocker.Lock(), in getHttpTransport.
GLockTransport(c) ==
  /\ Running /\ gpc[c] = "lockTransport" /\ gfn[c] = "getHttpTransport"
  /\ transportLocker = Nil
  /\ transportLocker' = c
  /\ gpc' = [gpc EXCEPT ![c] = "build"]
  /\ UNCHANGED <<transports, transportNoProxy, globalConfig, configLocker,
                 cfgVersion, returnedVersion, gfn, garg, gsnap, gret, gstale,
                 othervars>>

\* The singleton, built from the snapshot if absent; or a new transport for
\* the proxy.
GBuild(c) ==
  /\ Running /\ gpc[c] = "build"
  /\ LET r == TransportFor(RegistryState, garg[c].proxyURL, gsnap[c].cfg,
                           gsnap[c].ver)
     IN  /\ transports' = r.st.transports
         /\ transportNoProxy' = r.st.transportNoProxy
         /\ gret' = [gret EXCEPT ![c] = r.ret]
  /\ gpc' = [gpc EXCEPT ![c] = "return"]
  /\ UNCHANGED <<globalConfig, configLocker, transportLocker, cfgVersion,
                 returnedVersion, gfn, garg, gsnap, gstale, othervars>>

\* The deferred transportLocker.Unlock(), and the return, after which the
\* locals of the call are gone; gstale records
\* whether the direct-connection transport handed back was built from a
\* configuration older than one whose SetGatherConfig has returned.
GReturn(c) ==
  /\ Running /\ gpc[c] = "return"
  /\ transportLocker' = Nil
  /\ gstale' = [gstale EXCEPT ![c] =
                  /\ garg[c].proxyURL = ""
                  /\ transports[gret[c]].ver < returnedVersion]
  /\ gpc' = [gpc EXCEPT ![c] = "idle"]
  /\ gfn' = [gfn EXCEPT ![c] = ""]
  /\ garg' = [garg EXCEPT ![c] = NoRegistryArg]
  /\ gsnap' = [gsnap EXCEPT ![c] = NoSnapshot]
  /\ gret' = [gret EXCEPT ![c] = Nil]
  /\ UNCHANGED <<transports, transportNoProxy, globalConfig, configLocker,
                 cfgVersion, returnedVersion, othervars>>

NextRegistry ==
  \E c \in Callers :
    \/ SCall(c)
    \/ SValidate(c)
    \/ SLockConfig(c)
    \/ SLockTransport(c)
    \/ SReset(c)
    \/ SStore(c)
    \/ SReturn(c)
    \/ GCall(c)
    \/ GReadConfig(c)
    \/ GLockTransport(c)
    \/ GBuild(c)
    \/ GReturn(c)

SpecRegistry == InitConcurrentRegistry /\ [][NextRegistry]_vars

\* C15: once a successful SetGatherConfig(cfg) has returned, no
\* getHttpTransport("") that returns afterwards hands back a transport
\* built from a configuration older than cfg.
C15_NoStaleTransportAfterReturn ==
  \A c \in Callers : ~gstale[c]
\* C21: after UseFastConnConfig() the active configuration has
\* ResponseHeaderTimeout = 5 s, and its dial, TLS handshake, expect-continue
\* and response-header timeouts all lie between 1 s and 5 s.
C21_FastProfileWithinOneToFive ==
  (cfgCall.fn = "UseFastConnConfig" /\ cfgCall.over) =>
    /\ globalConfig.ResponseHeaderTimeout = 5000
    /\ \A t \in { globalConfig.DialTimeout,
                  globalConfig.TLSHandshakeTimeout,
                  globalConfig.ExpectContinueTimeout,
                  globalConfig.ResponseHeaderTimeout } :
         1000 <= t /\ t <= 5000
\* ------------------------------------- exchanges on client instances ----
\* An instance as NewGather("chrome", ...) leaves it, reduced to one header;
\* one whose Client was never set; and a nil pointer.
InstanceInputs ==
  { [nil |-> FALSE, Client |-> [nil |-> FALSE],
     safeHeaders |-> [k \in {"User-Agent"} |-> "chrome"]],
    [nil |-> FALSE, Client |-> [nil |-> TRUE],
     safeHeaders |-> [k \in {"User-Agent"} |-> "chrome"]],
    NilInstance }

\* The first instance is sound; the others are any of the three. Nobody
\* has called one yet.
InitInstances ==
  /\ gathers \in {gs \in [Instances -> InstanceInputs] :
                    ~gs[1].nil /\ ~gs[1].Client.nil}
  /\ glocker = [g \in Instances |-> Nil]
  /\ xpc = [c \in Callers |-> "idle"]
  /\ xcall = [c \in Callers |-> NoCall]
  /\ xreq = [c \in Callers |-> NoRequest]
  /\ xresp = [c \in Callers |-> NoResponse]
  /\ xres = [c \in Callers |-> NoExchangeResult]
  /\ xhist = [g \in Instances |-> FALSE]
  /\ InitNoLifecycle
  /\ transports = << >>
  /\ transportNoProxy = Nil
  /\ transportProxyMap = << >>
  /\ unUsed = << >>
  /\ pool = << >>
  /\ sem = NilChan
  /\ config = ZeroPoolConfig
  /\ locker = << >>
  /\ args = NoArgs
  /\ InitRegistry
  /\ InitTransportCalls
  /\ pc = [c \in Callers |-> "idle"]
  /\ deadline = [c \in Callers |-> 0]
  /\ hasPermit = [c \in Callers |-> FALSE]
  /\ num = [c \in Callers |-> 0]
  /\ poolIndex = [c \in Callers |-> -1]
  /\ visited = [c \in Callers |-> {}]
  /\ wake = [c \in Callers |-> 0]
  /\ res = [c \in Callers |-> NoResult]
  /\ now = 0
  /\ gavePermit = [c \in Callers |-> FALSE]
  /\ touched = [c \in Callers |-> FALSE]
  /\ exchanged = [c \in Callers |-> FALSE]
  /\ relSeen = [c \in Callers |-> FALSE]
  /\ starved = [c \in Callers |-> FALSE]

\* The build with Ungzip and request of src/util.go.
InitExchange == variant = "util.go" /\ InitInstances

\* Everything but the exchanges.
restvars == <<tvars, poolvars, args, callvars, histvars, lifevars>>

\* Caller c enters the instance method on some instance, with some URL and
\* referer, and with cookies and boundary out of the sets given.
Enter(c, method, cookieSet, boundarySet) ==
  /\ xpc[c] = "idle"
  /\ \E g \in Instances, URL \in {"http://host/"} \cup BadURLs,
        refererURL \in {"", "http://ref/"}, cookies \in cookieSet,
        boundary \in boundarySet :
       xcall' = [xcall EXCEPT ![c] =
                   [g |-> g, method |-> method, URL |-> URL,
                    refererURL |-> refererURL, cookies |-> cookies,
                    boundary |-> boundary]]
  /\ xpc' = [xpc EXCEPT ![c] = "lock"]
  /\ UNCHANGED <<variant, gathers, glocker, xreq, xresp, xres, xhist, restvars>>

CookieInputs == {"", "sid=1"}

BoundaryInputs == {"", "B1", "b@d"}

\* func (g *GatherStruct) GetUtil(URL, refererURL, cookies string)
GetUtil(c) == Enter(c, "GetUtil", CookieInputs, {""})
\* func (g *GatherStruct) Get(URL, refererURL string)
Get(c) == Enter(c, "GetUtil", {""}, {""})
\* func (g *GatherStruct) PostUtil(URL, refererURL, cookies string, postMap ...)
PostUtil(c) == Enter(c, "PostUtil", CookieInputs, {""})
\* func (g *GatherStruct) Post(URL, refererURL string, postMap ...)
Post(c) == Enter(c, "PostUtil", {""}, {""})
\* func (g *GatherStruct) PostBytes(URL, refererURL, cookies string, postBytes []byte)
PostBytes(c) == Enter(c, "PostBytes", CookieInputs, {""})
\* func (g *GatherStruct) PostXMLUtil(URL, refererURL, cookies, postXML string)
PostXMLUtil(c) == Enter(c, "PostXMLUtil", CookieInputs, {""})
\* func (g *GatherStruct) PostXML(URL, refererURL, postXML string)
PostXML(c) == Enter(c, "PostXMLUtil", {""}, {""})
\* func (g *GatherStruct) PostJsonUtil(URL, refererURL, cookies, postJson string)
PostJsonUtil(c) == Enter(c, "PostJsonUtil", CookieInputs, {""})
\* func (g *GatherStruct) PostJson(URL, refererURL, postJson string)
PostJson(c) == Enter(c, "PostJsonUtil", {""}, {""})
\* func (g *GatherStruct) PostMultipartFormDataUtil(URL, refererURL, cookies,
\* boundary string, postValueMap, postFileMap)
PostMultipartFormDataUtil(c) ==
  Enter(c, "PostMultipartFormDataUtil", CookieInputs, BoundaryInputs)
\* func (g *GatherStruct) PostMultipartFormData(URL, refererURL, boundary
\* string, postValueMap, postFileMap)
PostMultipartFormData(c) ==
  Enter(c, "PostMultipartFormDataUtil", {""}, BoundaryInputs)

\* The call of c is over: its arguments and its request are gone.
Leave(c, r) ==
  /\ xres' = [xres EXCEPT ![c] = r]
  /\ xpc' = [xpc EXCEPT ![c] = IF r.panic # "" THEN "panicked" ELSE "done"]
  /\ xcall' = [xcall EXCEPT ![c] = NoCall]
  /\ xreq' = [xreq EXCEPT ![c] = NoRequest]

\* XLock entering without the lock.
XLock_NoMutex(c) ==
  /\ xpc[c] = "lock"
  /\ IF gathers[xcall[c].g].nil
     THEN /\ Leave(c, [NoExchangeResult EXCEPT !.panic = "nil pointer dereference"])
          /\ UNCHANGED glocker
     ELSE /\ glocker' = [glocker EXCEPT ![xcall[c].g] = c]
          /\ xpc' = [xpc EXCEPT ![c] = "locked"]
          /\ UNCHANGED <<xcall, xreq, xres>>
  /\ UNCHANGED <<variant, gathers, xresp, xhist, restvars>>

\* g.locker.Lock(): on a nil instance the field access panics.
XLock(c) ==
  /\ xpc[c] = "lock"
  /\ IF gathers[xcall[c].g].nil
     THEN /\ Leave(c, [NoExchangeResult EXCEPT !.panic = "nil pointer dereference"])
          /\ UNCHANGED glocker
     ELSE /\ glocker[xcall[c].g] = Nil
          /\ glocker' = [glocker EXCEPT ![xcall[c].g] = c]
          /\ xpc' = [xpc EXCEPT ![c] = "locked"]
          /\ UNCHANGED <<xcall, xreq, xres>>
  /\ UNCHANGED <<variant, gathers, xresp, xhist, restvars>>

\* The boundary multipart.NewWriter draws for caller c.
GeneratedBoundary(c) == IF c = 1 THEN "rnd1" ELSE "rndN"

\* Under the lock: the body and the Content-Type of the method, then
\* newHttpRequest. An error or a panic ends the call, and the deferred
\* Unlock runs.
XBuild(c) ==
  /\ xpc[c] = "locked"
  /\ LET g == xcall[c].g
         p == Prepare(gathers[g], xcall[c], GeneratedBoundary(c))
         n == newHttpRequest(p.ga, HttpMethod(xcall[c]), xcall[c].URL,
                             xcall[c].refererURL, xcall[c].cookies)
     IN  IF p.err # ""
         THEN /\ Leave(c, [NoExchangeResult EXCEPT !.err = p.err])
              /\ glocker' = [glocker EXCEPT ![g] = Nil]
              /\ UNCHANGED gathers
         ELSE /\ gathers' = [gathers EXCEPT ![g] = n.ga]
              /\ IF n.panic # "" \/ n.err # ""
                 THEN /\ Leave(c, [NoExchangeResult EXCEPT !.err = n.err,
                                                           !.panic = n.panic])
                      /\ glocker' = [glocker EXCEPT ![g] = Nil]
                 ELSE /\ xreq' = [xreq EXCEPT ![c] = n.req]
                      /\ xpc' = [xpc EXCEPT ![c] = "do"]
                      /\ UNCHANGED <<glocker, xcall, xres>>
  /\ UNCHANGED <<variant, xresp, xhist, restvars>>

\* XDo with g.locker.Unlock() written after a successful return of request
\* instead of deferred: an exchange that ends in an error keeps the lock.
XDo_UnlocksOnSuccess(c, resp) ==
  /\ xpc[c] = "do"
  /\ LET g == xcall[c].g
         r == request(variant, gathers[g], xreq[c], resp)
     IN  /\ Leave(c, r)
         /\ xresp' = [xresp EXCEPT ![c] = resp]
         /\ glocker' = IF r.err = "" /\ r.panic = ""
                       THEN [glocker EXCEPT ![g] = Nil]
                       ELSE glocker
         /\ xhist' = [xhist EXCEPT ![g] =
                        @ \/ (xcall[c].refererURL # "" /\ xcall[c].cookies # "")]
  /\ UNCHANGED <<variant, gathers, restvars>>

\* g.Client.Do(req) delivers resp; request handles it and returns, and the
\* deferred Unlock runs. xresp keeps what the client delivered.
XDo(c, resp) ==
  /\ xpc[c] = "do"
  /\ LET g == xcall[c].g
     IN  /\ Leave(c, request(variant, gathers[g], xreq[c], resp))
         /\ xresp' = [xresp EXCEPT ![c] = resp]
         /\ glocker' = [glocker EXCEPT ![g] = Nil]
         /\ xhist' = [xhist EXCEPT ![g] =
                        @ \/ (xcall[c].refererURL # "" /\ xcall[c].cookies # "")]
  /\ UNCHANGED <<variant, gathers, restvars>>

\* What the servers of the concurrent runs answer.
FewResponses ==
  { [NoResponse EXCEPT !.err = "dial"],
    [NoResponse EXCEPT !.StatusCode = 200,
                       !.Body = [len |-> 2, head |-> <<65, 65>>, sound |-> FALSE]],
    [NoResponse EXCEPT !.StatusCode = 404,
                       !.Body = [len |-> 1, head |-> <<65>>, sound |-> FALSE]] }

\* The steps of a call once it is entered.
XStep(c) ==
  \/ XLock(c)
  \/ XBuild(c)
  \/ \E resp \in FewResponses : XDo(c, resp)

NextExchange ==
  \E c \in Callers :
    \/ GetUtil(c)
    \/ Get(c)
    \/ PostUtil(c)
    \/ Post(c)
    \/ PostBytes(c)
    \/ PostXMLUtil(c)
    \/ PostXML(c)
    \/ PostJsonUtil(c)
    \/ PostJson(c)
    \/ PostMultipartFormDataUtil(c)
    \/ PostMultipartFormData(c)
    \/ XStep(c)

SpecExchange == InitExchange /\ [][NextExchange]_vars

\* A call that is entered goes on: a caller that can take a step takes it in
\* the end, and the client gets an answer or an error for every request.
SpecExchangeLive == SpecExchange /\ \A c \in Callers : WF_vars(XStep(c))

\* The callers whose exchange on instance g is in flight: past
\* g.locker.Lock() and not yet returned.
InFlight(g) == {c \in Callers : xpc[c] \in {"locked", "do"} /\ xcall[c].g = g}

\* C22: on one instance at most one exchange is in flight at any time, the
\* one of the caller that holds the instance lock, and every call that was
\* entered comes to its end: from some point on no call is under way.
C22_OneExchangePerInstance ==
  /\ [](\A g \in Instances :
          /\ Cardinality(InFlight(g)) <= 1
          /\ \A c \in InFlight(g) : glocker[g] = c)
  /\ <>[](\A c \in Callers : xpc[c] \in {"idle", "done", "panicked"})

\* One caller has its request out on an instance while the other waits for
\* the lock of the same instance.
C22_SecondCallerWaits ==
  \E c, d \in Callers :
    /\ xpc[c] = "do"
    /\ xpc[d] = "lock"
    /\ xcall[c].g = xcall[d].g
\* C23: the referer and the cookies of a call go into the headers of its
\* request only. The store of an instance never holds them, a request built
\* for a call without referer or without cookies carries no Referer or no
\* Cookie whatever the earlier exchanges on the instance were, and building
\* a request leaves the stores of the other instances as they were.
C23_RequestHeadersLeaveStoreAlone ==
  /\ [](\A g \in Instances :
          gathers[g].nil \/ {"Referer", "Cookie"} \cap DOMAIN gathers[g].safeHeaders = {})
  /\ [](\A c \in Callers :
          xpc[c] = "do" =>
            /\ xcall[c].refererURL = "" => "Referer" \notin DOMAIN xreq[c].Header
            /\ xcall[c].cookies = "" => "Cookie" \notin DOMAIN xreq[c].Header)
  /\ [][\A c \in Callers :
          (xpc[c] = "locked" /\ xpc'[c] # "locked") =>
            \A h \in Instances \ {xcall[c].g} : gathers'[h] = gathers[h]]_vars

\* After an exchange with referer and cookies on an instance, a request
\* without them is out on the same instance.
C23_BareRequestAfterRefererAndCookie ==
  \E c \in Callers :
    /\ xpc[c] = "do"
    /\ xhist[xcall[c].g]
    /\ xcall[c].refererURL = ""
    /\ xcall[c].cookies = ""
    /\ "User-Agent" \in DOMAIN xreq[c].Header
\* The Content-Type each POST method has for its kind of body.
OwnContentType(call, generated) ==
  CASE call.method = "PostUtil" -> "application/x-www-form-urlencoded; charset=utf-8"
    [] call.method = "PostBytes" -> "application/octet-stream"
    [] call.method = "PostXMLUtil" -> "application/xml; charset=utf-8"
    [] call.method = "PostJsonUtil" -> "application/json; charset=utf-8"
    [] call.method = "PostMultipartFormDataUtil" ->
         FormDataContentType(IF call.boundary = "" THEN generated ELSE call.boundary)

\* C24: on an instance created without a Content-Type, every POST request
\* goes out with the Content-Type of the kind of body of its own call.
C24_EachPostSendsItsOwnContentType ==
  \A c \in Callers :
    (xpc[c] = "do" /\ HttpMethod(xcall[c]) = "POST") =>
      /\ "Content-Type" \in DOMAIN xreq[c].Header
      /\ xreq[c].Header["Content-Type"] = OwnContentType(xcall[c], GeneratedBoundary(c))
\* The instance of the call of c is nil or has no Client.
Unusable(c) ==
  /\ xcall[c].g \in Instances
  /\ gathers[xcall[c].g].nil \/ gathers[xcall[c].g].Client.nil

\* C28: a call on an instance that is nil or has no Client panics before a
\* request is built. No request is ever out on such an instance, and a call
\* on one that comes to g.locker.Lock() or to newHttpRequest ends there by a
\* panic, with no request and no error value.
C28_UnusableInstancePanics ==
  /\ [](\A c \in Callers : Unusable(c) => xpc[c] # "do" /\ xreq[c] = NoRequest)
  /\ [][\A c \in Callers :
          ( /\ Unusable(c)
            /\ xpc[c] \in {"lock", "locked"}
            /\ xpc'[c] \notin {"lock", "locked"}
            /\ Prepare(gathers[xcall[c].g], xcall[c], GeneratedBoundary(c)).err = "" )
          => /\ xpc'[c] = "panicked"
             /\ xres'[c].panic # ""
             /\ xres'[c].err = ""
             /\ xres'[c].html = EmptyString
             /\ xreq'[c] = NoRequest]_vars

\* A call on an instance without Client has panicked in newHttpRequest, and
\* the deferred Unlock has freed the instance.
C28_PanickedWithoutClient ==
  \E c \in Callers, g \in Instances :
    /\ xpc[c] = "panicked"
    /\ xres[c].panic = "FATAL"
    /\ ~gathers[g].nil
    /\ gathers[g].Client.nil
    /\ "Content-Type" \in DOMAIN gathers[g].safeHeaders
    /\ glocker[g] = Nil
\* ------------------------------------------- one exchange, any answer ----
\* Either build of Ungzip and request.
InitResponse == variant \in {"util.go", "part_001"} /\ InitInstances

\* Status codes around the limits of the 2xx range.
StatusCodes == {199, 200, 204, 299, 300, 404, 500}

\* What g.Client.Do(req) can deliver: an error, or a response with a status
\* and a body that can be read or breaks off.
Responses ==
  {[NoResponse EXCEPT !.err = "dial"]}
    \cup {[NoResponse EXCEPT !.StatusCode = st, !.Body = b] :
            st \in StatusCodes, b \in Bodies}
    \cup {[NoResponse EXCEPT !.StatusCode = st, !.readErr = "reset"] :
            st \in StatusCodes}

\* Ungzip(data), called on its own.
CallUngzip(c, data) ==
  /\ xpc[c] = "idle"
  /\ xpc' = [xpc EXCEPT ![c] = "ungzipped"]
  /\ xresp' = [xresp EXCEPT ![c] = [NoResponse EXCEPT !.Body = data]]
  /\ xres' = [xres EXCEPT ![c] =
                [NoExchangeResult EXCEPT !.html = Ungzip(variant, data).s,
                                         !.err = Ungzip(variant, data).err]]
  /\ UNCHANGED <<variant, gathers, glocker, xcall, xreq, xhist, restvars>>

\* The goroutine that makes the exchange.
FirstCaller == {c \in Callers : \A d \in Callers : c <= d}

NextResponse ==
  \E c \in FirstCaller :
    \/ GetUtil(c)
    \/ XLock(c)
    \/ XBuild(c)
    \/ \E resp \in Responses : XDo(c, resp)
    \/ \E data \in Bodies : CallUngzip(c, data)

SpecResponse == InitResponse /\ [][NextResponse]_vars

\* The body begins with the gzip signature 0x1F 0x8B.
HasSignature(data) == data.len >= 2 /\ data.head[1] = 31 /\ data.head[2] = 139

\* The status is one of 200..299.
Is2xx(resp) == 200 <= resp.StatusCode /\ resp.StatusCode <= 299

C26_UngzipPassesUnsignedBodies ==
  \A c \in Callers :
    xpc[c] = "ungzipped" =>
      LET data == xresp[c].Body
      IN  /\ data.len = 0 => xres[c].html = EmptyString /\ xres[c].err = ""
          /\ ~HasSignature(data) =>
               xres[c].html = String(data) /\ xres[c].err = ""
          /\ xres[c].html.kind = "inflated" => HasSignature(data)

\* The gzip reader fails on the body, at the header or in the stream.
FailsToInflate(data) == gzipNewReader(data) # "" \/ gzipReadAll(data) # ""

\* C27: a 2xx answer whose body has the gzip signature but does not
\* inflate still makes the exchange succeed, with the raw body as content.
C27_RawBodyWhenInflateFails ==
  \A c \in Callers :
    ( /\ xpc[c] = "done"
      /\ Is2xx(xresp[c])
      /\ xresp[c].readErr = ""
      /\ HasSignature(xresp[c].Body)
      /\ FailsToInflate(xresp[c].Body) )
    => /\ xres[c].err = ""
       /\ xres[c].html = String(xresp[c].Body)
\* ------------------------- a pool and the configuration calls after it ----
\* initFastConfigByTimeout(timeoutSecond)
initFastConfigByTimeout(st, timeoutSecond) ==
  SetGatherConfigByClientTimeout(st, timeoutSecond * 1000, FALSE, TRUE)

\* newGatherUtilWithCustomConfig of the pool that sets the configuration:
\* the transport comes from the registry's getHttpTransport and has its
\* idle-connection budget overwritten.
newGatherUtilWithCustomConfigOnRegistry(st, proxyURL, timeOut, maxIdleConns, cfg) ==
  LET g       == getHttpTransportByConfig(st, proxyURL)
      ratioed == ScaleByRatio(maxIdleConns, cfg.MaxIdleConnsPerHostRatio)
      perHost == IF ratioed <= 0 THEN 1 ELSE ratioed
      st2     == [g.st EXCEPT !.transports[g.ret] =
                     [@ EXCEPT !.MaxIdleConns = maxIdleConns,
                               !.MaxIdleConnsPerHost = perHost]]
  IN  [ ga |-> [ nil    |-> FALSE,
                 Client |-> [nil |-> FALSE, Transport |-> g.ret, Timeout |-> timeOut],
                 J      |-> "J" ],
        st |-> st2 ]

\* The loop "for i := 0; i < num; i++" of that pool's constructors.
RECURSIVE BuildInstancesOnRegistry(_, _, _, _, _, _, _)
BuildInstancesOnRegistry(gp, i, n, proxyURL, timeOut, finalMaxIdleConns, cfg) ==
  IF i >= n THEN gp
  ELSE LET r == newGatherUtilWithCustomConfigOnRegistry(gp.st, proxyURL, timeOut,
                                                        finalMaxIdleConns, cfg)
           gp2 == [gp EXCEPT !.pool = Append(@, r.ga),
                             !.unUsed = [k \in DOMAIN @ \cup {i} |->
                                           IF k = i THEN TRUE ELSE @[k]],
                             !.st = r.st]
       IN  BuildInstancesOnRegistry(gp2, i + 1, n, proxyURL, timeOut,
                                    finalMaxIdleConns, cfg)

\* NewGatherUtilPoolWithConfig of the pool that sets the configuration:
\* initFastConfigByTimeout(timeOut) first, which may panic, then the pool.
NewGatherUtilPoolWithConfigOnRegistry(st, proxyURL, timeOut, n0, cfg0) ==
  LET f   == initFastConfigByTimeout(st, timeOut)
      cfg == getValidatedConfig(cfg0)
      n   == adjustPoolSize(n0, cfg.MaxPoolSize)
      finalMaxIdleConns == IF cfg.MaxIdleConns = 0 THEN n ELSE cfg.MaxIdleConns
      gp0 == [ unUsed |-> << >>,
               pool   |-> << >>,
               sem    |-> IF cfg.IsUseSemaphore THEN [cap |-> n, len |-> n] ELSE NilChan,
               config |-> cfg,
               st     |-> f.st ]
  IN  IF f.panic # NoPanic
      THEN [gp |-> gp0, panic |-> f.panic]
      ELSE [gp |-> BuildInstancesOnRegistry(gp0, 0, n, proxyURL, timeOut,
                                            finalMaxIdleConns, cfg),
            panic |-> NoPanic]

\* NewGatherUtilPool of the pool that sets the configuration.
NewGatherUtilPoolOnRegistry(st, proxyURL, timeOut, n0) ==
  NewGatherUtilPoolWithConfigOnRegistry(st, proxyURL, timeOut, n0, defaultPoolConfig)

\* NewGatherUtil(headers, proxyURL, timeOut, isCookieLogOpen) on the
\* registry: the client gets the transport getHttpTransport returns.
NewGatherUtil(st, proxyURL, timeOut) ==
  LET g == getHttpTransportByConfig(st, proxyURL)
  IN  [ ga |-> [ nil    |-> FALSE,
                 Client |-> [nil |-> FALSE, Transport |-> g.ret, Jar |-> "J",
                             Timeout |-> timeOut],
                 J      |-> "J" ],
        st |-> g.st ]

InitLifecycle == InitConcurrentRegistry

\* A panic ends the process.
Alive == opLog.panic = NoPanic

\* The operation fn is over: st is the registry it leaves, and the log
\* keeps the registry it found.
Logged(fn, st, panic) ==
  /\ globalConfig' = st.globalConfig
  /\ cfgVersion' = st.cfgVersion
  /\ transports' = st.transports
  /\ transportNoProxy' = st.transportNoProxy
  /\ returnedVersion' = st.cfgVersion
  /\ opLog' = [fn |-> fn, before |-> RegistryState, panic |-> panic]
  /\ UNCHANGED <<transportProxyMap, noProxyLocker, proxyMapLocker, tpc, tkey,
                 tret, tconc, configLocker, transportLocker, cfgCall, gpc, gfn,
                 garg, gsnap, gret, gstale, hasPass>>
  /\ UNCHANGED <<args, callvars, histvars, exvars>>

\* A configuration call is over: a pool built before it has seen a change
\* if the call installed a configuration.
Changed(fn, r) ==
  /\ Alive
  /\ cfgVersion - InitialRegistry.cfgVersion < MaxConfigChanges
  /\ Logged(fn, r.st, r.panic)
  /\ poolSnap' = [poolSnap EXCEPT !.changed =
                    @ \/ (pool # << >> /\ r.panic = NoPanic)]
  /\ UNCHANGED <<poolvars, later>>

\* Total timeouts handed to SetGatherConfigByClientTimeout, in ms.
LifeTotalTimeouts == {0, 20000, 100000}

LifeSetGatherConfig ==
  \E cfg \in RegistryConfigs \cup {NilConfig} :
    Changed("SetGatherConfig", SetGatherConfig(RegistryState, cfg))

LifeSetGatherConfigByClientTimeout ==
  \E t \in LifeTotalTimeouts, slow \in BOOLEAN :
    Changed("SetGatherConfigByClientTimeout",
            SetGatherConfigByClientTimeout(RegistryState, t, slow, TRUE))

LifeUseSlowConnConfig == Changed("UseSlowConnConfig", UseSlowConnConfig(RegistryState))

LifeUseFastConnConfig == Changed("UseFastConnConfig", UseFastConnConfig(RegistryState))

\* The pool r.gp, if the constructor did not panic, becomes the state, and
\* the transport of each of its instances is noted.
Constructed(fn, r) ==
  /\ Alive
  /\ pool = << >>
  /\ cfgVersion - InitialRegistry.cfgVersion < MaxConfigChanges
  /\ Len(transports) < MaxTransports
  /\ Logged(fn, r.gp.st, r.panic)
  /\ IF r.panic # NoPanic
     THEN UNCHANGED <<poolvars, poolSnap>>
     ELSE /\ unUsed' = r.gp.unUsed
          /\ pool' = r.gp.pool
          /\ sem' = r.gp.sem
          /\ config' = r.gp.config
          /\ locker' = [i \in DOMAIN r.gp.unUsed |-> Nil]
          /\ poolSnap' =
               [ids      |-> [i \in DOMAIN r.gp.pool |-> r.gp.pool[i].Client.Transport],
                settings |-> [i \in DOMAIN r.gp.pool |->
                                r.gp.st.transports[r.gp.pool[i].Client.Transport]],
                changed  |-> FALSE]
  /\ UNCHANGED later

\* Pool sizes and timeouts (seconds) handed to the constructors.
LifeTimeOuts == {0, 30, 40}

LifeNewGatherUtilPool ==
  \E proxyURL \in {"", "proxyA"}, timeOut \in LifeTimeOuts, n \in 1..MaxPoolNum :
    Constructed("NewGatherUtilPool",
                NewGatherUtilPoolOnRegistry(RegistryState, proxyURL, timeOut, n))

LifeNewGatherUtilPoolWithConfig ==
  \E proxyURL \in {"", "proxyA"}, timeOut \in LifeTimeOuts, n \in 1..MaxPoolNum,
     b \in BOOLEAN :
    Constructed("NewGatherUtilPoolWithConfig",
                NewGatherUtilPoolWithConfigOnRegistry(RegistryState, proxyURL,
                                                      timeOut, n, RunConfig(b)))

\* One instance is created beside the pool.
LifeNewGatherUtil ==
  /\ Alive
  /\ later.ga.nil
  /\ Len(transports) < MaxTransports
  /\ \E proxyURL \in {"", "proxyA"} :
       LET r == NewGatherUtil(RegistryState, proxyURL, 10)
       IN  /\ Logged("NewGatherUtil", r.st, NoPanic)
           /\ later' = [ga |-> r.ga, proxyURL |-> proxyURL, cfg |-> globalConfig,
                        ver |-> cfgVersion, afterChange |-> poolSnap.changed]
  /\ UNCHANGED <<poolvars, poolSnap>>

\* An instance of the pool, or the one beside it, performs an exchange:
\* newHttpRequest and request touch no package-level state.
LifeExchange ==
  /\ Alive
  /\ pool # << >> \/ ~later.ga.nil
  /\ opLog.fn # "Get"
  /\ Logged("Get", RegistryState, NoPanic)
  /\ UNCHANGED <<poolvars, poolSnap, later>>

NextLifecycle ==
  \/ LifeSetGatherConfig
  \/ LifeSetGatherConfigByClientTimeout
  \/ LifeUseSlowConnConfig
  \/ LifeUseFastConnConfig
  \/ LifeNewGatherUtilPool
  \/ LifeNewGatherUtilPoolWithConfig
  \/ LifeNewGatherUtil
  \/ LifeExchange

SpecLifecycle == InitLifecycle /\ [][NextLifecycle]_vars
\* The four calls that set the configuration.
ConfigCalls ==
  {"SetGatherConfig", "SetGatherConfigByClientTimeout", "UseSlowConnConfig",
   "UseFastConnConfig"}

\* C29: whatever configuration call follows the construction of a pool,
\* each instance of the pool refers to the transport it was built with and
\* that transport has the settings it had then; an instance created after
\* the change gets a transport of its own, made from the configuration
\* active at its creation.
C29_PoolKeepsItsTransports ==
  /\ \A i \in DOMAIN pool :
       /\ pool[i].Client.Transport = poolSnap.ids[i]
       /\ transports[pool[i].Client.Transport] = poolSnap.settings[i]
  /\ later.afterChange =>
       /\ transports[later.ga.Client.Transport] =
            newTransport(later.cfg, later.proxyURL, later.ver)
       /\ \A i \in DOMAIN pool : later.ga.Client.Transport # pool[i].Client.Transport

\* A pool on the direct connection, then a configuration call that changed
\* the active configuration, then an instance on the direct connection: its
\* transport has another response-header timeout than the pool's.
C29_InstanceAfterChange ==
  /\ pool # << >>
  /\ poolSnap.changed
  /\ later.afterChange
  /\ later.proxyURL = ""
  /\ transports[pool[1].Client.Transport].Proxy = ""
  /\ later.cfg = globalConfig
  /\ transports[later.ga.Client.Transport].ResponseHeaderTimeout
       # transports[pool[1].Client.Transport].ResponseHeaderTimeout

\* C30: an operation that is none of the four configuration calls (the
\* construction of an instance or of a pool, an exchange) leaves the active
\* configuration as it was, and the cached direct-connection transport, if
\* one was cached.
C30_OnlyConfigCallsChangeConfig ==
  (opLog.fn # "" /\ opLog.fn \notin ConfigCalls) =>
    /\ globalConfig = opLog.before.globalConfig
    /\ cfgVersion = opLog.before.cfgVersion
    /\ opLog.before.transportNoProxy # Nil =>
         transportNoProxy = opLog.before.transportNoProxy
\* C31: for each proxy key and each configuration version at most one
\* transport built from that version for that key exists.
C31_OneTransportPerKeyAndVersion ==
  \A i, j \in DOMAIN transports :
    (transports[i].Proxy = transports[j].Proxy /\ transports[i].ver = transports[j].ver)
      => i = j
\* C32: right after construction, by either constructor and whatever
\* PoolConfig was passed, the pool's semaphore holds as many permits as the
\* pool has instances.
C32_PermitsEqualPoolSize ==
  args.ctor # "" =>
    /\ sem.cap = Len(pool)
    /\ sem.len = Len(pool)
\* ------------------------------------------- one pool after another ----
\* Nothing has been built yet.
InitPools ==
  /\ transports = << >>
  /\ transportNoProxy = Nil
  /\ transportProxyMap = << >>
  /\ unUsed = << >>
  /\ pool = << >>
  /\ sem = NilChan
  /\ config = ZeroPoolConfig
  /\ locker = << >>
  /\ args = NoArgs
  /\ InitRegistry
  /\ InitTransportCalls
  /\ InitCalls
  /\ InitNoExchange
  /\ InitNoLifecycle

\* The pool gp has been built by ctor and is the pool looked at from now on;
\* the pool built before it, if there is one, is kept in poolSnap with the
\* transports of its instances as they were when the new constructor began.
PoolBuilt(ctor, proxyURL, n, cfg, gp) ==
  /\ pool = << >> \/ poolSnap = NoPoolSnap
  /\ Install(gp)
  /\ args' = [ctor |-> ctor, proxyURL |-> proxyURL, timeOut |-> 10, num |-> n,
              config |-> cfg]
  /\ poolSnap' =
       IF pool = << >> THEN poolSnap
       ELSE [ids      |-> [i \in DOMAIN pool |-> pool[i].Client.Transport],
             settings |-> [i \in DOMAIN pool |-> transports[pool[i].Client.Transport]],
             changed  |-> FALSE]
  /\ UNCHANGED <<noProxyLocker, proxyMapLocker, tpc, tkey, tret, tconc, regvars,
                 exvars, opLog, later, callvars, histvars>>

\* NewGatherUtilPool(headers, proxyURL, 10, _, n), first or second pool.
AnotherNewGatherUtilPool ==
  \E proxyURL \in {"", "proxyA"}, n \in 1..MaxNumInput :
    PoolBuilt("NewGatherUtilPool", proxyURL, n, defaultPoolConfig,
              NewGatherUtilPool(TransportState, proxyURL, 10, n))

\* NewGatherUtilPoolWithConfig(headers, proxyURL, 10, _, n, cfg), first or
\* second pool.
AnotherNewGatherUtilPoolWithConfig ==
  \E proxyURL \in {"", "proxyA"}, n \in 1..MaxNumInput, m \in {0, 7}, r \in {200, 500} :
    LET cfg == [defaultPoolConfig EXCEPT !.MaxIdleConns = m,
                                         !.MaxIdleConnsPerHostRatio = r]
    IN  PoolBuilt("NewGatherUtilPoolWithConfig", proxyURL, n, cfg,
                  NewGatherUtilPoolWithConfig(TransportState, proxyURL, 10, n, cfg))

NextPools ==
  \/ AnotherNewGatherUtilPool
  \/ AnotherNewGatherUtilPoolWithConfig

SpecPools == InitPools /\ [][NextPools]_vars

\* C33: the instances of a pool are wired to a transport with the pool's own
\* idle-connection budget (MaxIdleConns of its configuration, or its size
\* when that is 0; per host that value times the ratio, at least 1), and the
\* transports of a pool built earlier still have the budget they had when
\* the later constructor began.
C33_EachPoolKeepsItsBudget ==
  /\ \A i \in DOMAIN pool :
       LET budget  == IF config.MaxIdleConns = 0 THEN Len(pool)
                      ELSE config.MaxIdleConns
           ratioed == ScaleByRatio(budget, config.MaxIdleConnsPerHostRatio)
           t       == transports[pool[i].Client.Transport]
       IN  /\ t.MaxIdleConns = budget
           /\ t.MaxIdleConnsPerHost = (IF ratioed <= 0 THEN 1 ELSE ratioed)
  /\ \A i \in DOMAIN poolSnap.ids :
       transports[poolSnap.ids[i]] = poolSnap.settings[i]

\* --------------------------------------- pool calls, time passing ----
\* A caller whose next step waits for the clock: the timer of
\* context.WithTimeout while it waits for a permit or polls, and the timer
\* of time.Sleep.
AwaitsClock(c) ==
  \/ pc[c] \in {"sem", "loop", "range", "delete"} /\ now < deadline[c]
  \/ pc[c] = "sleep" /\ now < wake[c]

\* The clock advances by one retry interval; it goes on for as long as a
\* timer of some caller is still ahead.
Elapse ==
  /\ Len(pool) > 0
  /\ \/ now < MaxTicks * config.RetryIntervalMs
     \/ \E c \in Callers : AwaitsClock(c)
  /\ now' = now + config.RetryIntervalMs
  /\ UNCHANGED <<tvars, addvars, poolvars, args, pc, deadline, hasPermit, num,
                 poolIndex, visited, wake, res, histvars>>

NextLive ==
  \/ \E c \in Callers : CallStep(c)
  \/ Elapse

\* Each goroutine keeps being scheduled, every delegated exchange ends
\* (ExchangeEnd is a step of the caller), and timers fire.
SpecLive ==
  /\ Init
  /\ [][NextLive]_vars
  /\ \A c \in Callers : WF_vars(CallStep(c))
  /\ WF_vars(Elapse)

PermitHolders == {c \in Callers : hasPermit[c] /\ ~gavePermit[c]}

\* C35: with the semaphore enabled the permits in the channel plus the
\* permits held by calls in progress are the pool size N: never more than N
\* are out, a permit is held exactly by the calls between the receive and
\* the deferred send, and a caller at the deferred send finds room in the
\* channel.
C35_PermitsConserved ==
  config.IsUseSemaphore =>
    /\ sem.cap = Len(pool)
    /\ sem.len + Cardinality(PermitHolders) = Len(pool)
    /\ Cardinality(PermitHolders) <= Len(pool)
    /\ \A c \in Callers :
         /\ c \in PermitHolders <=> pc[c] \in {"loop", "range", "delete", "sleep",
                                               "lock", "exchange", "relIdx", "relSem"}
         /\ pc[c] = "relSem" => sem.len < sem.cap

\* Every permit is out, one of the holders is at its deferred send, and a
\* call before it has already sent its permit back.
C35_ReturningWhileAllOut ==
  /\ config.IsUseSemaphore
  /\ sem.len = 0
  /\ \E c \in Callers : pc[c] = "relSem"
  /\ \/ Cardinality(PermitHolders) = NumCallers
     \/ \E d \in Callers : gavePermit[d]

\* ------------------------------------------ the lock of an instance ----
\* C36: the lock of an instance is held only by a caller whose exchange on
\* that instance is under way; whenever a call leaves the locked part, by
\* return or by panic, whatever the outcome, the lock of its instance is
\* free in the next state; and from some point on every lock is free with
\* nobody left waiting for one.
C36_LockFreeAfterEveryExit ==
  /\ [](\A g \in Instances : glocker[g] # Nil => glocker[g] \in InFlight(g))
  /\ [][\A c \in Callers :
          (xpc[c] \in {"locked", "do"} /\ xpc'[c] \in {"done", "panicked"})
            => glocker'[xcall[c].g] = Nil]_vars
  /\ <>[](/\ \A g \in Instances : glocker[g] = Nil
          /\ \A c \in Callers : xpc[c] # "lock")

\* A call on the instance without Client has panicked in newHttpRequest,
\* and the next caller now holds the lock of that same instance.
C36_LockTakenAfterPanic ==
  \E c, d \in Callers :
    /\ c # d
    /\ ~gathers[2].nil /\ gathers[2].Client.nil
    /\ xpc[c] = "panicked" /\ xres[c].panic = "FATAL"
    /\ xpc[d] = "locked" /\ xcall[d].g = 2 /\ glocker[2] = d

\* ------------------------------------- the active configuration ----
\* C37: after the package is loaded, whatever configuration calls and pool
\* constructions have run (and whichever of them panicked), the active
\* configuration is not nil and passes every rule of SetGatherConfig: both
\* pool limits, the idle-connection timeout and the keep-alive are above 0,
\* the four phase timeouts and the linger are not below 0.
C37_ActiveConfigValid ==
  /\ ~globalConfig.nil
  /\ globalConfig.MaxIdleConns > 0
  /\ globalConfig.MaxIdleConnsPerHost > 0
  /\ globalConfig.IdleConnTimeout > 0
  /\ globalConfig.KeepAlive > 0
  /\ globalConfig.DialTimeout >= 0
  /\ globalConfig.TLSHandshakeTimeout >= 0
  /\ globalConfig.ExpectContinueTimeout >= 0
  /\ globalConfig.ResponseHeaderTimeout >= 0
  /\ globalConfig.TCPLinger >= 0

\* A pool constructor has replaced the configuration of the package load
\* by the fast derivation of its timeOut, and SetGatherConfig has then
\* refused a configuration with a negative DialTimeout.
C37_RefusedAfterPoolBuilt ==
  /\ pool # << >>
  /\ globalConfig # InitialRegistry.globalConfig
  /\ opLog.fn = "SetGatherConfig"
  /\ opLog.panic.fields = <<"DialTimeout">>
  /\ opLog.before.globalConfig = globalConfig

====
